---- MODULE Spec2Model ----
(***************************************************************************)
(* Model of the reporting core of GoldenTestAutomationFramework:           *)
(*   - CustomJSONFormatter  (CustomJsonReportFormatter/custom_json_formatter.py) *)
(*   - CustomContext        (Utility/frameworkDataContext.py)              *)
(*   - merge_json_reports / generate_report_statistics (runner.py)         *)
(*   - run_behave_test / run_behave_tests / calculate_duration (runner.py) *)
(*   - handle_nested_data / handle_none_values (Utility/HTMLReportGenerator.py) *)
(*   - extract_report_details (runner.py)                                *)
(*   - StrongDMClient._handle_request (clients/db_client.py)               *)
(*                                                                         *)
(* Python dicts are functions (records); an optional dict key is a key     *)
(* that is or is not in the DOMAIN.  None is Null.  A text is the sequence *)
(* of its characters, NL being the newline.  A user_data key is            *)
(* the sequence of its word tokens, so that str.startswith is a prefix     *)
(* test on sequences.  Time stamps are abstracted to the value TS.         *)
(***************************************************************************)
EXTENDS Integers, Sequences, FiniteSets, TLC

VARIABLES
    \* ---- CustomJSONFormatter fields
    feature_count, current_feature, current_feature_data, current_scenario,
    step_index, stream, stream_open,
    \* ---- CustomContext singleton
    user_data,
    \* ---- driver of the callbacks (the BDD runner) and observers; result_calls
    \*      counts the result() calls that returned since the element was opened
    raised, n_features, n_elements, n_steps, n_embeds,
    step_calls, eof_log, fresh, last_result, result_calls,
    \* ---- merge_json_reports: the file system, the argument, the results
    fs, json_report_files, merged_results, merge_state, merge_logged, merge_calls,
    first_results, fs0,
    \* ---- generate_report_statistics: the argument and the tuple returned
    tally_in, tally_out,
    \* ---- run_behave_tests: the wall clock (seconds), the pool workers, the call
    clock, workers, run_state,
    \* ---- CustomContext objects: the class attribute _instance, the objects
    \*      allocated, the references call sites hold, the last value written
    ctx_instance, ctx_heap, ctx_handles, ctx_last,
    \* ---- a call of a pure function: its argument and what it returned
    pure_in, pure_out,
    \* ---- a call of StrongDMClient._handle_request: its locals and its result
    request

collectorVars ==
    << feature_count, current_feature, current_feature_data, current_scenario,
       step_index, stream, stream_open, user_data,
       raised, n_features, n_elements, n_steps, n_embeds,
       step_calls, eof_log, fresh, last_result, result_calls >>

reportVars ==
    << fs, json_report_files, merged_results, merge_state, merge_logged, merge_calls,
       first_results, fs0, tally_in, tally_out >>

runVars == << clock, workers, run_state >>

ctxVars == << ctx_instance, ctx_heap, ctx_handles, ctx_last >>

pureVars == << pure_in, pure_out >>

clientVars == << request >>

extVars == << runVars, ctxVars, pureVars, clientVars >>

vars == << collectorVars, reportVars, extVars >>

----------------------------------------------------------------------------
\* Bounds of the model: the numbers of feature(), background()/scenario(),
\* step() and embedding() events in one run.
MaxFeatures == 2
MaxElements == 2
MaxSteps == 2
MaxEmbeds == 1
\* ... the number of embedding() events of one feature when its elements are
\* followed step by step.
MaxAttachments == 2
\* ... the length of the path list given to merge_json_reports, and the numbers of
\* features and of elements of a feature given to generate_report_statistics.
MaxPaths == 2
MaxTallyFeatures == 2
MaxTallyElements == 1
\* ... the number of workers of the pool of run_behave_tests and the last second
\* of the wall clock while they start.
MaxWorkers == 2
MaxClock == 1
\* ... the number of CustomContext() references that call sites keep.
MaxHandles == 2
\* ... the nesting depth of the values given to generate_html_report, the last
\* second of the time stamps given to calculate_duration and the length of the
\* texts of steps and error messages.
MaxDepth == 2
MaxSecond == 1
MaxTextLen == 3
\* ... the number of feature files and the max_parallel_jobs given to
\* run_behave_tests when it splits the files.
MaxFeatureFiles == 6
MaxJobs == 3
\* ... the retries of a StrongDMClient and the number of HTTP requests one
\* _handle_request call is followed for.
MaxRetries == 3
MaxRequests == 6

\* None in a scalar slot, and None in an object slot (a record, so that it can be
\* compared with the dicts and objects that the slot holds otherwise).
Null == "null"
NoObj == [py_none |-> TRUE]
TS == "ts"

\* A str is the sequence of its characters; a slot that holds a str or None is a
\* record, so that None and "" are two values.
NL == "\n"
NoText == [none |-> TRUE, chars |-> << >>]
Text(chars) == [none |-> FALSE, chars |-> chars]
\* the truth value of a str-or-None: a non-empty str
TextTruthy(t) == ~t.none /\ t.chars # << >>

\* ---- Python dict helpers -------------------------------------------------
EmptyDict == [k \in {} |-> Null]

DictSet(d, k, v) == [x \in (DOMAIN d) \cup {k} |-> IF x = k THEN v ELSE d[x]]

DictGet(d, k) == IF k \in DOMAIN d THEN d[k] ELSE Null

Truthy(d) == DOMAIN d # {}

\* list[-1] = value  and  list[i] = value
SetLast(seq, v) == [seq EXCEPT ![Len(seq)] = v]

Last(seq) == seq[Len(seq)]

\* the sequences over S of length up to n
SeqUpTo(S, n) == UNION {[1..k -> S] : k \in 0..n}

\* ---- CustomContext (frameworkDataContext.py) -----------------------------
StartsWith(key, prefix) ==
    /\ Len(key) >= Len(prefix)
    /\ SubSeq(key, 1, Len(prefix)) = prefix

K_inputdata == << "inputdata" >>
K_outputdata == << "outputdata" >>
K_screenshot == << "screenshot" >>
K_inputdata_x == << "inputdata", "_x" >>
K_outputdata_y == << "outputdata", "_y" >>
K_InputData == << "Input Data" >>
K_OutputData == << "Output Data" >>
K_ScreenshotData == << "Screenshot Data" >>

set_user_data(ud, key, value) == DictSet(ud, key, value)

get_user_data(ud, key) == DictGet(ud, key)

\* faulty variant: the key is removed
reset_user_data_remove(ud, key) == [k \in DOMAIN ud \ {key} |-> ud[k]]

reset_user_data(ud, key) == DictSet(ud, key, Null)

\* faulty variant: the key compared with == instead of startswith
CollectPrefixed_exact(ud, prefix) ==
    [k \in {x \in DOMAIN ud : x = prefix} |-> get_user_data(ud, k)]

\* the three loops of result(): every key with the prefix, with its value
CollectPrefixed(ud, prefix) ==
    [k \in {x \in DOMAIN ud : StartsWith(x, prefix)} |-> get_user_data(ud, k)]

\* ---- inputs of the callbacks ---------------------------------------------
ScenarioStatuses == {"passed", "failed"}
FeatureStatuses == {"passed"}
StepTexts == {NoText}
UserKeys == {K_inputdata_x, K_outputdata_y, K_screenshot}
UserValues == {"v1"}

\* behave model objects as the formatter sees them
\* The status of a feature or scenario object is set by the runner while the
\* formatter holds the object: StatusRead(obj, v) is the object as a handler finds
\* it when the runner has set its status to v.
FeatureObj(n) == [name |-> n, description |-> "", status |-> "untested"]
ScenarioObj(n) ==
    [name |-> n, description |-> "", status |-> "untested", retry_attempts |-> n - 1]
StatusRead(obj, v) == IF obj = NoObj THEN NoObj ELSE [obj EXCEPT !.status = v]
BackgroundObj(n, k) == [name |-> n, steps |-> [i \in 1..k |-> [name |-> i, text |-> NoText]]]
StepObjs == {[name |-> 0, text |-> t] : t \in StepTexts}
StepResults ==
    {[status |-> "passed", error_message |-> NoText],
     [status |-> "failed", error_message |-> Text(<< "boom", NL, "trace" >>)]}
\* a bound argument value: a JSON scalar or any other object
ScalarArg == [name |-> "n", value |-> [scalar |-> TRUE, v |-> "7"],
              original |-> [scalar |-> TRUE, v |-> "7"]]
ObjectArg == [name |-> "", value |-> [scalar |-> FALSE, v |-> "obj"],
              original |-> [scalar |-> TRUE, v |-> "text"]]
BadArg == [name |-> "", value |-> [scalar |-> FALSE, v |-> "obj"],
           original |-> [scalar |-> FALSE, v |-> "obj"]]
MatchObjs ==
    {[location |-> FALSE, arguments |-> << >>],
     [location |-> TRUE, arguments |-> << ScalarArg >>],
     [location |-> TRUE, arguments |-> << ObjectArg >>],
     [location |-> TRUE, arguments |-> << BadArg >>]}
EmbedData == {"png"}

\* ---- CustomJSONFormatter (custom_json_formatter.py) ----------------------
\* the dict built by feature()
feature_data(f) ==
    LET d == [name |-> f.name, status |-> Null, start_time |-> TS, end_time |-> Null]
    IN  IF f.description # "" THEN DictSet(d, "description", f.description) ELSE d

background_element(b) ==
    [type |-> "background", name |-> b.name, status |-> "", steps |-> << >>,
     start_time |-> TS, end_time |-> Null]

\* faulty variant: the element is opened with the status the scenario has then
scenario_element_eager(s) ==
    LET d == [type |-> "scenario", name |-> s.name, steps |-> << >>, status |-> s.status,
              start_time |-> TS, end_time |-> Null, retry_attempts |-> s.retry_attempts]
    IN  IF s.description # "" THEN DictSet(d, "description", s.description) ELSE d

scenario_element(s) ==
    LET d == [type |-> "scenario", name |-> s.name, steps |-> << >>, status |-> Null,
              start_time |-> TS, end_time |-> Null, retry_attempts |-> s.retry_attempts]
    IN  IF s.description # "" THEN DictSet(d, "description", s.description) ELSE d

\* "\n" in text
HasNewline(chars) == \E i \in 1..Len(chars) : chars[i] = NL

\* the index of the first newline of a text that has one
FirstNewline(chars) ==
    CHOOSE i \in 1..Len(chars) :
        chars[i] = NL /\ \A j \in 1..(i - 1) : chars[j] # NL

\* str.splitlines(): the lines without their newline; a newline at the end of the
\* text does not open a last empty line
RECURSIVE splitlines(_)
splitlines(chars) ==
    IF chars = << >> THEN << >>
    ELSE IF ~HasNewline(chars) THEN << chars >>
    ELSE << SubSeq(chars, 1, FirstNewline(chars) - 1) >>
             \o splitlines(SubSeq(chars, FirstNewline(chars) + 1, Len(chars)))

\* faulty variant: every text is split
SplitText_always(chars) == [kind |-> "list", lines |-> splitlines(chars)]

\* text.splitlines() when "\n" in text (a JSON list of strings), the text itself
\* otherwise (a JSON string)
SplitText(chars) ==
    IF HasNewline(chars) THEN [kind |-> "list", lines |-> splitlines(chars)]
    ELSE [kind |-> "str", lines |-> << chars >>]

step_data(st) ==
    LET d == [name |-> st.name, start_time |-> TS, end_time |-> Null]
    IN  IF TextTruthy(st.text) THEN DictSet(d, "text", SplitText(st.text.chars)) ELSE d

\* add_feature_element, for current_feature_data that is not None
add_feature_element(cfd, element) ==
    LET d == IF "elements" \in DOMAIN cfd THEN cfd ELSE DictSet(cfd, "elements", << >>)
    IN  DictSet(d, "elements", Append(d["elements"], element))

\* the property current_feature_element succeeds (no AssertionError / KeyError)
HasCurrentElement(cfd) == cfd # NoObj /\ "elements" \in DOMAIN cfd

current_feature_element(cfd) == Last(cfd["elements"])

\* the current element replaced by e (the element dict is mutated in place)
WithCurrentElement(cfd, e) == DictSet(cfd, "elements", SetLast(cfd["elements"], e))

\* faulty variant: the write goes to the first step of the element
WithStep_first(cfd, i, s) ==
    LET e == current_feature_element(cfd)
    IN  WithCurrentElement(cfd, DictSet(e, "steps", [e["steps"] EXCEPT ![1] = s]))

\* steps[i] of the current element replaced by s
WithStep(cfd, i, s) ==
    LET e == current_feature_element(cfd)
    IN  WithCurrentElement(cfd, DictSet(e, "steps", [e["steps"] EXCEPT ![i + 1] = s]))

\* faulty variant: the last step of the element is taken not to exist
CursorOnStep_off_by_one(cfd, i) ==
    HasCurrentElement(cfd) /\ i + 1 < Len(current_feature_element(cfd)["steps"])

\* steps[self._step_index] exists
CursorOnStep(cfd, i) ==
    HasCurrentElement(cfd) /\ i < Len(current_feature_element(cfd)["steps"])

StepAt(cfd, i) == current_feature_element(cfd)["steps"][i + 1]

\* faulty variant: the end_time of the finished scenario is not stamped
finish_previous_element_data_no_end_time(cfd, cs) ==
    IF cfd = NoObj \/ "elements" \notin DOMAIN cfd THEN cfd
    ELSE LET element == current_feature_element(cfd)
         IN  IF element["type"] = "scenario" /\ cs # NoObj
             THEN WithCurrentElement(cfd,
                      [element EXCEPT !["status"] = cs.status,
                                      !["retry_attempts"] = cs.retry_attempts])
             ELSE cfd

finish_previous_element_data(cfd, cs) ==
    IF cfd = NoObj \/ "elements" \notin DOMAIN cfd THEN cfd
    ELSE LET element == current_feature_element(cfd)
         IN  IF element["type"] = "scenario" /\ cs # NoObj
             THEN WithCurrentElement(cfd,
                      [element EXCEPT !["status"] = cs.status,
                                      !["end_time"] = TS,
                                      !["retry_attempts"] = cs.retry_attempts])
             ELSE cfd

\* faulty variant: the status of the feature is stamped, its end_time is not
update_status_data_status_only(cfd, cf) ==
    [cfd EXCEPT !["status"] = cf.status]

update_status_data(cfd, cf) ==
    [cfd EXCEPT !["status"] = cf.status, !["end_time"] = TS]

\* faulty variant: the step list is assigned instead of appended to
AppendStep_assign(cfd, st) ==
    LET e == current_feature_element(cfd)
    IN  WithCurrentElement(cfd, DictSet(e, "steps", << step_data(st) >>))

\* one step() on the feature dict (the caller has checked HasCurrentElement)
AppendStep(cfd, st) ==
    LET e == current_feature_element(cfd)
    IN  WithCurrentElement(cfd, DictSet(e, "steps", Append(e["steps"], step_data(st))))

\* the for loop of background(): step() for each declared step
RECURSIVE ReplaySteps(_, _)
ReplaySteps(cfd, steps) ==
    IF steps = << >> THEN cfd
    ELSE ReplaySteps(AppendStep(cfd, Head(steps)), Tail(steps))

\* ---- JSON writer: the stream is the sequence of the chunks written -------
TokOpen == [tok |-> "["]
TokSep == [tok |-> ","]
TokClose == [tok |-> "]"]
TokFeature(d) == [tok |-> "feature", json |-> d]

write_json_header(s) == Append(s, TokOpen)

write_json_footer(s) == Append(s, TokClose)

write_json_feature_separator(s) == Append(s, TokSep)

write_json_feature(s, d) == Append(s, TokFeature(d))

\* ---- the callbacks, as the runner drives them ----------------------------
\* The run goes on until close() or until a callback raises (the exception
\* leaves the runner).
Running == stream_open /\ ~raised

formatterVars == << feature_count, current_feature, current_feature_data,
                    current_scenario, step_index, stream, stream_open >>
counterVars == << n_features, n_elements, n_steps, n_embeds >>
observerVars == << step_calls, eof_log, fresh, last_result, result_calls >>

\* reset(), then the new feature dict
Feature(f) ==
    /\ Running
    /\ UNCHANGED << reportVars, extVars >>
    /\ n_features < MaxFeatures
    /\ current_feature' = f
    /\ current_feature_data' = feature_data(f)
    /\ current_scenario' = NoObj
    /\ step_index' = 0
    /\ n_features' = n_features + 1
    /\ step_calls' = << >>
    /\ result_calls' = 0
    /\ UNCHANGED << feature_count, stream, stream_open, user_data, raised,
                    n_elements, n_steps, n_embeds, eof_log, fresh, last_result >>

Background(b, v) ==
    /\ Running
    /\ UNCHANGED << reportVars, extVars >>
    /\ n_elements < MaxElements
    /\ n_steps + Len(b.steps) <= MaxSteps
    /\ n_steps' = n_steps + Len(b.steps)
    /\ n_elements' = n_elements + 1
    /\ IF current_feature_data = NoObj
       THEN \* add_feature_element: AssertionError
            /\ raised' = TRUE
            /\ UNCHANGED << formatterVars, step_calls, result_calls >>
       ELSE /\ current_feature_data' =
                  ReplaySteps(
                      add_feature_element(
                          finish_previous_element_data(current_feature_data,
                                                       StatusRead(current_scenario, v)),
                          background_element(b)),
                      b.steps)
            /\ step_index' = 0
            /\ step_calls' = Append(step_calls, Len(b.steps))
            /\ result_calls' = 0
            /\ UNCHANGED << feature_count, current_feature, current_scenario, stream,
                            stream_open, raised >>
    /\ UNCHANGED << user_data, n_features, n_embeds, eof_log, fresh, last_result >>

Scenario(s, v) ==
    /\ Running
    /\ UNCHANGED << reportVars, extVars >>
    /\ n_elements < MaxElements
    /\ n_elements' = n_elements + 1
    /\ current_scenario' = s
    /\ IF current_feature_data = NoObj
       THEN \* add_feature_element: AssertionError, after current_scenario was set
            /\ raised' = TRUE
            /\ UNCHANGED << feature_count, current_feature, current_feature_data,
                            step_index, stream, stream_open, step_calls,
                            result_calls >>
       ELSE /\ current_feature_data' =
                  add_feature_element(
                      finish_previous_element_data(current_feature_data,
                                                   StatusRead(current_scenario, v)),
                      scenario_element(s))
            /\ step_index' = 0
            /\ step_calls' = Append(step_calls, 0)
            /\ result_calls' = 0
            /\ UNCHANGED << feature_count, current_feature, stream, stream_open, raised >>
    /\ UNCHANGED << user_data, n_features, n_steps, n_embeds, eof_log, fresh,
                    last_result >>

Step(st) ==
    /\ Running
    /\ UNCHANGED << reportVars, extVars >>
    /\ n_steps < MaxSteps
    /\ n_steps' = n_steps + 1
    /\ IF ~HasCurrentElement(current_feature_data)
       THEN \* current_feature_element: AssertionError or KeyError
            /\ raised' = TRUE
            /\ UNCHANGED << formatterVars, step_calls >>
       ELSE /\ current_feature_data' = AppendStep(current_feature_data, st)
            /\ step_calls' = SetLast(step_calls, Last(step_calls) + 1)
            /\ UNCHANGED << feature_count, current_feature, current_scenario, step_index,
                            stream, stream_open, raised >>
    /\ UNCHANGED << user_data, n_features, n_elements, n_embeds, eof_log, fresh,
                    last_result, result_calls >>

\* ---- match() -------------------------------------------------------------
\* isinstance(value, json_scalar_types)
IsJsonScalar(val) == val.scalar

\* faulty variant: the bound value is kept whatever its kind
ArgumentValue_no_fallback(a) == a.value

ArgumentValue(a) == IF IsJsonScalar(a.value) THEN a.value ELSE a.original

\* the assert of the argument loop fails for some argument
MatchAssertFails(arguments) ==
    \E i \in 1..Len(arguments) : ~IsJsonScalar(ArgumentValue(arguments[i]))

MatchArg(a) ==
    LET d0 == [value |-> ArgumentValue(a)]
        d1 == IF a.name # "" THEN DictSet(d0, "name", a.name) ELSE d0
    IN  IF a.original # ArgumentValue(a) THEN DictSet(d1, "original", a.original) ELSE d1

match_data(m) ==
    [location |-> m.location,
     arguments |-> [i \in 1..Len(m.arguments) |-> MatchArg(m.arguments[i])]]

Match(m) ==
    /\ Running
    /\ UNCHANGED << reportVars, extVars >>
    /\ IF MatchAssertFails(m.arguments)
       THEN raised' = TRUE /\ UNCHANGED current_feature_data
       ELSE IF ~m.location
       THEN UNCHANGED << raised, current_feature_data >>
       ELSE IF ~CursorOnStep(current_feature_data, step_index)
       THEN \* AssertionError, KeyError or IndexError
            raised' = TRUE /\ UNCHANGED current_feature_data
       ELSE /\ current_feature_data' =
                  WithStep(current_feature_data, step_index,
                           DictSet(StepAt(current_feature_data, step_index), "match",
                                   match_data(m)))
            /\ UNCHANGED raised
    /\ UNCHANGED << feature_count, current_feature, current_scenario, step_index, stream,
                    stream_open, user_data, counterVars, observerVars >>

\* ---- result() ------------------------------------------------------------
\* lines 175-177: the three summaries stored back into the context
StoreSummaries(ud) ==
    set_user_data(
        set_user_data(
            set_user_data(ud, K_InputData, CollectPrefixed(ud, K_inputdata)),
            K_OutputData, CollectPrefixed(ud, K_outputdata)),
        K_ScreenshotData, CollectPrefixed(ud, K_screenshot))

\* faulty variant: the second if (Status.error, lines 200-205) is missing
result_data_failed_only(st) ==
    LET d == [status |-> st.status, end_time |-> TS, duration |-> 0]
    IN  IF TextTruthy(st.error_message) /\ st.status = "failed"
        THEN DictSet(d, "error_message", SplitText(st.error_message.chars))
        ELSE d

\* lines 187-205: the result dict of the step
result_data(st) ==
    LET d == [status |-> st.status, end_time |-> TS, duration |-> 0]
    IN  IF TextTruthy(st.error_message) /\ st.status \in {"failed", "error"}
        THEN DictSet(d, "error_message", SplitText(st.error_message.chars))
        ELSE d

\* lines 183-205: what result() writes into the step at the cursor
StepWithResult(stepd, ud, st) ==
    DictSet(
        DictSet(
            DictSet(
                DictSet(stepd, "Test_data", CollectPrefixed(ud, K_inputdata)),
                "Test_Output_data", CollectPrefixed(ud, K_outputdata)),
            "Screenshot_data", CollectPrefixed(ud, K_screenshot)),
        "result", result_data(st))

\* faulty variant: the cursor stays on the step that got its result
AdvanceCursor_stay(i) == i

\* line 207: self._step_index += 1
AdvanceCursor(i) == i + 1

\* one of lines 209-214
ResetIfDrained(ud, drained, key) ==
    IF Truthy(drained) THEN reset_user_data(ud, key) ELSE ud

\* lines 209-214, on the context as lines 175-177 left it
ResetDrained(ud0, ud1) ==
    ResetIfDrained(
        ResetIfDrained(
            ResetIfDrained(ud1, CollectPrefixed(ud0, K_inputdata), K_inputdata),
            CollectPrefixed(ud0, K_outputdata), K_outputdata),
        CollectPrefixed(ud0, K_screenshot), K_screenshot)

Result(st) ==
    /\ Running
    /\ UNCHANGED << reportVars, extVars >>
    /\ IF ~CursorOnStep(current_feature_data, step_index)
       THEN \* AssertionError, KeyError or IndexError at lines 181-183
            /\ raised' = TRUE
            /\ user_data' = StoreSummaries(user_data)
            /\ UNCHANGED << current_feature_data, step_index, fresh, last_result,
                            result_calls >>
       ELSE /\ current_feature_data' =
                  WithStep(current_feature_data, step_index,
                           StepWithResult(StepAt(current_feature_data, step_index),
                                          user_data, st))
            /\ step_index' = AdvanceCursor(step_index)
            /\ result_calls' = result_calls + 1
            /\ user_data' = ResetDrained(user_data, StoreSummaries(user_data))
            /\ last_result' = [pre |-> user_data, fresh |-> fresh,
                               step |-> StepWithResult(StepAt(current_feature_data, step_index),
                                                       user_data, st)]
            /\ fresh' = {}
            /\ UNCHANGED raised
    /\ UNCHANGED << feature_count, current_feature, current_scenario, stream, stream_open,
                    counterVars, step_calls, eof_log >>

\* ---- embedding() ---------------------------------------------------------
Base64(data) == << "b64", data >>

Embedding(mime, data) ==
    /\ Running
    /\ UNCHANGED << reportVars, extVars >>
    /\ n_embeds' = n_embeds + 1
    /\ IF ~CursorOnStep(current_feature_data, step_index)
       THEN raised' = TRUE /\ UNCHANGED current_feature_data
       ELSE LET stepd == StepAt(current_feature_data, step_index)
                d == IF "embeddings" \in DOMAIN stepd THEN stepd
                     ELSE DictSet(stepd, "embeddings", << >>)
            IN  /\ current_feature_data' =
                      WithStep(current_feature_data, step_index,
                               DictSet(d, "embeddings",
                                       Append(d["embeddings"],
                                              [mime_type |-> mime, data |-> Base64(data)])))
                /\ UNCHANGED raised
    /\ UNCHANGED << feature_count, current_feature, current_scenario, step_index, stream,
                    stream_open, user_data, n_features, n_elements, n_steps,
                    observerVars >>

\* ---- eof() and close() ---------------------------------------------------
\* faulty variant: no separator between features
EofWrites_no_separator(s, count, d) ==
    write_json_feature(IF count = 0 THEN write_json_header(s) ELSE s, d)

\* what eof() writes: header or separator, then the feature
EofWrites(s, count, d) ==
    write_json_feature(
        IF count = 0 THEN write_json_header(s) ELSE write_json_feature_separator(s), d)

Eof(v, fv) ==
    /\ Running
    /\ UNCHANGED << reportVars, extVars >>
    /\ IF current_feature_data = NoObj
       THEN UNCHANGED << formatterVars, step_calls, eof_log, result_calls >>
       ELSE LET d == update_status_data(
                         finish_previous_element_data(current_feature_data,
                                                      StatusRead(current_scenario, v)),
                         StatusRead(current_feature, fv))
            IN  /\ stream' = EofWrites(stream, feature_count, d)
                /\ current_feature' = NoObj
                /\ current_feature_data' = NoObj
                /\ current_scenario' = NoObj
                /\ step_index' = 0
                /\ feature_count' = feature_count + 1
                /\ eof_log' = Append(eof_log, [name |-> current_feature_data["name"],
                                               step_calls |-> step_calls])
                /\ step_calls' = << >>
                /\ result_calls' = 0
                /\ UNCHANGED stream_open
    /\ UNCHANGED << user_data, raised, counterVars, fresh, last_result >>

\* what close() writes
CloseWrites(s, count) ==
    write_json_footer(IF count = 0 THEN write_json_header(s) ELSE s)

Close ==
    /\ Running
    /\ UNCHANGED << reportVars, extVars >>
    /\ stream' = CloseWrites(stream, feature_count)
    /\ stream_open' = FALSE
    /\ UNCHANGED << feature_count, current_feature, current_feature_data, current_scenario,
                    step_index, user_data, raised, counterVars, observerVars >>

\* ---- step code capturing data into the context ---------------------------
SetUserData(key, value) ==
    /\ Running
    /\ UNCHANGED << reportVars, extVars >>
    /\ user_data' = set_user_data(user_data, key, value)
    /\ fresh' = fresh \cup {key}
    /\ UNCHANGED << formatterVars, raised, counterVars, step_calls, eof_log,
                    last_result, result_calls >>

\* ---- specifications ------------------------------------------------------
\* no pool is started, no CustomContext handle is taken and no pure function is
\* called
InitIdleRun ==
    /\ clock = 0
    /\ workers = << >>
    /\ run_state = [pc |-> "idle", code |-> 0]

InitIdleContext ==
    /\ ctx_instance = 0
    /\ ctx_heap = << >>
    /\ ctx_handles = << >>
    /\ ctx_last = NoObj

InitIdleExt ==
    /\ InitIdleRun
    /\ InitIdleContext
    /\ pure_in = NoObj
    /\ pure_out = NoObj
    /\ request = NoObj

\* no report is merged or tallied while the collector runs
InitNoReport ==
    /\ InitIdleExt
    /\ fs = << >>
    /\ json_report_files = << >>
    /\ merged_results = << >>
    /\ merge_state = "idle"
    /\ merge_logged = 0
    /\ merge_calls = 0
    /\ first_results = << >>
    /\ fs0 = << >>
    /\ tally_in = << >>
    /\ tally_out = NoObj

InitIdleFormatter ==
    /\ feature_count = 0
    /\ current_feature = NoObj
    /\ current_feature_data = NoObj
    /\ current_scenario = NoObj
    /\ step_index = 0
    /\ stream = << >>
    /\ stream_open = TRUE
    /\ user_data = EmptyDict
    /\ raised = FALSE
    /\ n_features = 0 /\ n_elements = 0 /\ n_steps = 0 /\ n_embeds = 0
    /\ step_calls = << >>
    /\ eof_log = << >>
    /\ fresh = {}
    /\ last_result = NoObj
    /\ result_calls = 0

InitFormatter == InitNoReport /\ InitIdleFormatter

\* a run of the collector in which the steps capture no data
InitCollector == InitFormatter

Callbacks ==
    \/ Feature(FeatureObj(n_features + 1))
    \/ \E k \in 0..1, v \in ScenarioStatuses :
           Background(BackgroundObj(n_elements + 1, k), v)
    \/ \E v \in ScenarioStatuses : Scenario(ScenarioObj(n_elements + 1), v)
    \/ \E st \in StepObjs : Step(st)
    \/ \E st \in StepResults : Result(st)
    \/ \E v \in ScenarioStatuses, fv \in FeatureStatuses : Eof(v, fv)
    \/ Close

SpecCollector == InitCollector /\ [][Callbacks]_vars

\* The steps of one scenario, with the step code capturing data into the context
\* between the callbacks: the run starts where feature(F1), scenario(S1) leave
\* the formatter.
InitStore ==
    /\ InitNoReport
    /\ feature_count = 0
    /\ current_feature = FeatureObj(1)
    /\ current_feature_data =
           add_feature_element(feature_data(FeatureObj(1)), scenario_element(ScenarioObj(1)))
    /\ current_scenario = ScenarioObj(1)
    /\ step_index = 0
    /\ stream = << >>
    /\ stream_open = TRUE
    /\ user_data = EmptyDict
    /\ raised = FALSE
    /\ n_features = 1 /\ n_elements = 1 /\ n_steps = 0 /\ n_embeds = 0
    /\ step_calls = << 0 >>
    /\ eof_log = << >>
    /\ fresh = {}
    /\ last_result = NoObj
    /\ result_calls = 0

Captures ==
    \/ \E st \in StepObjs : Step(st)
    \/ \E key \in UserKeys, value \in UserValues : SetUserData(key, value)
    \/ \E st \in StepResults : Result(st)

SpecStore == InitStore /\ [][Captures]_vars

\* The callbacks on the tree in any order the runner may call them, match() and
\* embedding() included, until one raises; every scenario and every step passes.
PassedResult == [status |-> "passed", error_message |-> NoText]

Lifecycle ==
    \/ Feature(FeatureObj(n_features + 1))
    \/ Scenario(ScenarioObj(n_elements + 1), "passed")
    \/ \E st \in StepObjs : Step(st)
    \/ \E m \in MatchObjs : Match(m)
    \/ Result(PassedResult)
    \/ \E data \in EmbedData : n_embeds < MaxEmbeds /\ Embedding("image/png", data)

SpecLifecycle == InitFormatter /\ [][Lifecycle]_vars

\* The callbacks of one feature, backgrounds included, from the state feature(F1)
\* leaves the formatter in; every step passes, every match binds scalars, and a
\* step may get several attachments.
InitOneFeature ==
    /\ InitNoReport
    /\ feature_count = 0
    /\ current_feature = FeatureObj(1)
    /\ current_feature_data = feature_data(FeatureObj(1))
    /\ current_scenario = NoObj
    /\ step_index = 0
    /\ stream = << >>
    /\ stream_open = TRUE
    /\ user_data = EmptyDict
    /\ raised = FALSE
    /\ n_features = 1 /\ n_elements = 0 /\ n_steps = 0 /\ n_embeds = 0
    /\ step_calls = << >>
    /\ eof_log = << >>
    /\ fresh = {}
    /\ last_result = NoObj
    /\ result_calls = 0

\* a match without a location and one with a location
PlainMatches == {m \in MatchObjs : \A i \in 1..Len(m.arguments) : m.arguments[i] = ScalarArg}
\* the payload of the n-th embedding() of the run
Attachment(n) == "shot" \o ToString(n)

Elements ==
    \/ \E k \in 0..1 : Background(BackgroundObj(n_elements + 1, k), "passed")
    \/ Scenario(ScenarioObj(n_elements + 1), "passed")
    \/ \E st \in StepObjs : Step(st)
    \/ \E m \in PlainMatches : Match(m)
    \/ Result(PassedResult)
    \/ n_embeds < MaxAttachments /\ Embedding("image/png", Attachment(n_embeds + 1))

SpecElements == InitOneFeature /\ [][Elements]_vars

----------------------------------------------------------------------------
\* ---- reading the report back (json.load of the text written) -------------
\* The text is a JSON array iff it is "[", features separated by ",", "]".
IsJsonArrayText(s) ==
    /\ Len(s) >= 2
    /\ s[1] = TokOpen
    /\ s[Len(s)] = TokClose
    /\ \/ Len(s) = 2
       \/ /\ Len(s) % 2 = 1
          /\ \A i \in 2..(Len(s) - 1) :
                IF i % 2 = 0 THEN s[i].tok = "feature" ELSE s[i] = TokSep

\* the array that json.load returns for such a text
JsonArrayOf(s) == [i \in 1..((Len(s) - 1) \div 2) |-> s[2 * i].json]

CountTok(s, t) == Cardinality({i \in 1..Len(s) : s[i].tok = t})

ElementsOf(d) == IF "elements" \in DOMAIN d THEN d["elements"] ELSE << >>

FeaturePositions == {i \in 1..Len(stream) : stream[i].tok = "feature"}

StepCounts(d) == [j \in 1..Len(ElementsOf(d)) |-> Len(ElementsOf(d)[j]["steps"])]

\* C1: once close() has returned in a run in which no callback raised, the text
\* written is a JSON array that holds one record per feature ended by eof(), in
\* eof order, and every element of every record has as many steps as step() was
\* called while that element was the current one (background() replays included).
C1_ValidArrayWithStepCounts ==
    (~stream_open /\ ~raised) =>
        /\ IsJsonArrayText(stream)
        /\ Len(JsonArrayOf(stream)) = Len(eof_log)
        /\ \A i \in 1..Len(eof_log) :
              /\ JsonArrayOf(stream)[i]["name"] = eof_log[i].name
              /\ StepCounts(JsonArrayOf(stream)[i]) = eof_log[i].step_calls

\* two features written, the first with a background that replayed one step and
\* a scenario with one step
C1_Witness ==
    /\ ~stream_open
    /\ Len(eof_log) = 2
    /\ eof_log[1].step_calls = << 1, 1 >>

Max0(n) == IF n > 0 THEN n ELSE 0

\* C2: the stream holds one "[" (first, written before any feature), a "," between
\* consecutive features (feature_count - 1 of them) and, after close(), one "]"
\* (last); feature_count is the number of features written, which is the number of
\* eof() calls made with a current feature; with no feature the closed text is "[]".
C2_BracketsAndSeparators ==
    /\ CountTok(stream, "feature") = feature_count
    /\ Len(eof_log) = feature_count
    /\ CountTok(stream, ",") = Max0(feature_count - 1)
    /\ CountTok(stream, "[") <= 1
    /\ stream # << >> => stream[1] = TokOpen
    /\ stream_open => CountTok(stream, "]") = 0 /\ (feature_count = 0 => stream = << >>)
    /\ ~stream_open =>
          /\ CountTok(stream, "[") = 1
          /\ CountTok(stream, "]") = 1
          /\ stream[Len(stream)] = TokClose
          /\ feature_count = 0 => stream = << TokOpen, TokClose >>

C2_Witness == ~stream_open /\ feature_count = 2 /\ CountTok(stream, ",") = 1

TerminalStatuses == {"passed", "failed", "skipped", "error"}

\* C10 as claimed: every element of every feature written has a terminal status
\* and an end_time.
C10_EveryElementFinalized ==
    \A i \in FeaturePositions :
        \A j \in 1..Len(ElementsOf(stream[i].json)) :
            LET e == ElementsOf(stream[i].json)[j]
            IN  e["status"] \in TerminalStatuses /\ e["end_time"] # Null

\* C10 amended: every scenario element of every feature written carries the status
\* of its scenario and an end_time; a background element is written as it was
\* opened, with status "" and no end_time.
C10_ScenarioElementsFinalized ==
    \A i \in FeaturePositions :
        \A j \in 1..Len(ElementsOf(stream[i].json)) :
            LET e == ElementsOf(stream[i].json)[j]
            IN  IF e["type"] = "scenario"
                THEN e["status"] \in ScenarioStatuses /\ e["end_time"] = TS
                ELSE e["status"] = "" /\ e["end_time"] = Null

\* a feature written with a background followed by two scenarios
C10_Witness ==
    \E i \in FeaturePositions :
        LET es == ElementsOf(stream[i].json)
        IN  /\ Len(es) = 2
            /\ es[1]["type"] = "background"
            /\ es[2]["type"] = "scenario"

\* the positions of the stream that hold the feature named n
WrittenAt(n) == {i \in FeaturePositions : stream[i].json["name"] = n}

\* C11 as claimed: when close() has returned, every feature that feature() opened
\* is in the output exactly once, finalized.
C11_EveryOpenedFeatureWritten ==
    (~stream_open /\ ~raised) =>
        \A n \in 1..n_features :
            /\ Cardinality(WrittenAt(n)) = 1
            /\ \A i \in WrittenAt(n) :
                  stream[i].json["status"] # Null /\ stream[i].json["end_time"] # Null

\* C11 amended: a feature is written exactly when eof() is called while it is the
\* current feature, once, with the status of its feature object and an end_time;
\* a feature that is replaced by feature() or still open at close() is not written.
C11_FeaturesEndedByEofWritten ==
    /\ \A i \in FeaturePositions :
          /\ stream[i].json["status"] \in FeatureStatuses
          /\ stream[i].json["end_time"] = TS
    /\ \A n \in 1..n_features :
          /\ Cardinality(WrittenAt(n)) <= 1
          /\ Cardinality(WrittenAt(n)) =
                Cardinality({k \in 1..Len(eof_log) : eof_log[k].name = n})
    /\ current_feature_data # NoObj => WrittenAt(current_feature_data["name"]) = {}

\* feature(1), feature(2), eof(), close(): the second feature is written, the first
\* is not
C11_Witness ==
    /\ ~stream_open
    /\ ~raised
    /\ n_features = 2
    /\ WrittenAt(1) = {}
    /\ Cardinality(WrittenAt(2)) = 1

\* ---- lifecycle violations and match arguments (SpecLifecycle) -------------
\* there is a current feature with a current element
ElementOpen ==
    /\ current_feature_data # NoObj
    /\ "elements" \in DOMAIN current_feature_data

\* ... and the cursor addresses one of the steps of that element
StepAddressed ==
    /\ ElementOpen
    /\ step_index < Len(Last(current_feature_data["elements"])["steps"])

\* the call raised and left the feature tree and the cursor as they were
FailedUnrecorded ==
    /\ raised'
    /\ UNCHANGED << current_feature_data, step_index >>

\* C12: step() raises when there is no current feature or no current element;
\* match() with a location, result() and embedding() raise when there is none or
\* when the cursor does not address a step of the current element; the call that
\* raises leaves the feature tree and the cursor unchanged, and result() and
\* embedding() on an addressed step do not raise.
C12_LifecycleViolationsRaise ==
    [][ /\ \A st \in StepObjs :
              Step(st) => IF ElementOpen THEN ~raised' ELSE FailedUnrecorded
        /\ \A m \in MatchObjs :
              (Match(m) /\ m.location /\ ~StepAddressed) => FailedUnrecorded
        /\ Result(PassedResult) => IF StepAddressed THEN ~raised' ELSE FailedUnrecorded
        /\ \A data \in EmbedData :
              Embedding("image/png", data) =>
                  IF StepAddressed THEN ~raised' ELSE FailedUnrecorded
      ]_vars

\* a call made after the result of the only step of a scenario (a second result(),
\* a match() or an embedding()) has raised: the step keeps its result and the
\* cursor stays behind it
C12_Witness ==
    /\ raised
    /\ ElementOpen
    /\ step_index = 1
    /\ Len(Last(current_feature_data["elements"])["steps"]) = 1
    /\ "result" \in DOMAIN Last(current_feature_data["elements"])["steps"][1]

\* the match dicts of the steps of a feature dict
MatchesOf(d) ==
    {ElementsOf(d)[j]["steps"][k]["match"] :
        << j, k >> \in {p \in (1..Len(ElementsOf(d))) \X (1..MaxSteps) :
                          /\ p[2] <= Len(ElementsOf(d)[p[1]]["steps"])
                          /\ "match" \in DOMAIN ElementsOf(d)[p[1]]["steps"][p[2]]}}

RecordedMatches ==
    IF current_feature_data = NoObj THEN {} ELSE MatchesOf(current_feature_data)

\* C17: every argument value in the match metadata of a step is a JSON scalar; a
\* bound value that is not one is recorded as the argument's original text when
\* that is a scalar, and match() raises, recording nothing, when it is not.
C17_MatchArgumentsAreScalars ==
    /\ [](\A md \in RecordedMatches :
              \A i \in 1..Len(md.arguments) : md.arguments[i]["value"].scalar)
    /\ [][ \A m \in MatchObjs :
              (Match(m) /\ m.location /\ StepAddressed) =>
                  IF \E i \in 1..Len(m.arguments) :
                         ~m.arguments[i].value.scalar /\ ~m.arguments[i].original.scalar
                  THEN FailedUnrecorded
                  ELSE /\ ~raised'
                       /\ LET args == StepAt(current_feature_data', step_index)["match"].arguments
                          IN  /\ Len(args) = Len(m.arguments)
                              /\ \A i \in 1..Len(args) :
                                    args[i]["value"] =
                                        IF m.arguments[i].value.scalar
                                        THEN m.arguments[i].value
                                        ELSE m.arguments[i].original
      ]_vars

\* a match whose argument is bound to an object is recorded with the original text
C17_Witness ==
    \E md \in RecordedMatches :
        /\ Len(md.arguments) = 1
        /\ md.arguments[1]["value"] = ObjectArg.original

\* ---- result() and the Run Context Store (SpecStore) ----------------------
DrainedKeys(ud) ==
    {k \in DOMAIN ud :
        StartsWith(k, K_inputdata) \/ StartsWith(k, K_outputdata) \/ StartsWith(k, K_screenshot)}

\* mapping m holds exactly the entries of ud whose key starts with prefix
ExactlyThePrefixed(m, ud, prefix) ==
    /\ DOMAIN m = {k \in DOMAIN ud : StartsWith(k, prefix)}
    /\ \A k \in DOMAIN m : m[k] = ud[k]

\* C3: the step that result() wrote carries, as Test_data, Test_Output_data and
\* Screenshot_data, exactly the user_data entries present when result() was called
\* whose key starts with inputdata, outputdata and screenshot, each with its value.
C3_ResultAttachesPrefixedEntries ==
    last_result # NoObj =>
        /\ ExactlyThePrefixed(last_result.step["Test_data"], last_result.pre, K_inputdata)
        /\ ExactlyThePrefixed(last_result.step["Test_Output_data"], last_result.pre,
                              K_outputdata)
        /\ ExactlyThePrefixed(last_result.step["Screenshot_data"], last_result.pre,
                              K_screenshot)

\* set(inputdata_x), set(outputdata_y), then result()
C3_Witness ==
    /\ last_result # NoObj
    /\ DOMAIN last_result.step["Test_data"] = {K_inputdata_x}
    /\ last_result.step["Test_data"][K_inputdata_x] = "v1"
    /\ DOMAIN last_result.step["Test_Output_data"] = {K_outputdata_y}
    /\ DOMAIN last_result.step["Screenshot_data"] = {}

\* C4 as claimed: when result() has returned (and nothing was captured since),
\* every key it drained into the step is null in the store.
C4_DrainedKeysAreNull ==
    (last_result # NoObj /\ fresh = {}) =>
        \A k \in DrainedKeys(last_result.pre) : get_user_data(user_data, k) = Null

\* C5 as claimed: what result() attaches was captured after the previous result()
\* returned (since the start of the process for the first one).
C5_NoCarryOver ==
    last_result # NoObj =>
        \A f \in {"Test_data", "Test_Output_data", "Screenshot_data"} :
            DOMAIN last_result.step[f] \subseteq last_result.fresh

----------------------------------------------------------------------------
\* ---- Report Aggregator (runner.py) ---------------------------------------
\* The file system: what each report path holds.
Paths == {"a.json", "b.json"}
TokObject == [tok |-> "{}"]
Rec(n) == [name |-> n]
ShardTexts ==
    {<< TokOpen, TokClose >>,
     << TokOpen, TokFeature(Rec("F1")), TokClose >>,
     << TokOpen, TokFeature(Rec("F2")), TokSep, TokFeature(Rec("F3")), TokClose >>,
     << TokOpen, TokFeature(Rec("F1")) >>,
     << TokObject >>}
FileStates ==
    {[kind |-> "missing"], [kind |-> "unreadable"]} \cup
    {[kind |-> "file", text |-> t] : t \in ShardTexts}

\* os.path.isfile, for a path that is a string
isfile(disk, file) == disk[file].kind # "missing"

\* open(file, mode): "w" truncates, "r" leaves the file as it is
OpenFile(disk, file, mode) ==
    IF mode = "w" THEN [disk EXCEPT ![file] = [kind |-> "file", text |-> << >>]] ELSE disk

\* faulty variant: the report opened for writing
MergeOpenMode_w == "w"

\* line 321
MergeOpenMode == "r"

\* json.load of a text: a list, another JSON value, or JSONDecodeError
json_load(text) ==
    IF IsJsonArrayText(text) THEN [ok |-> TRUE, is_list |-> TRUE, value |-> JsonArrayOf(text)]
    ELSE IF text = << TokObject >> THEN [ok |-> TRUE, is_list |-> FALSE, value |-> << >>]
    ELSE [ok |-> FALSE, is_list |-> FALSE, value |-> << >>]

\* faulty variant: the shard put in front of the results
MergeExtend_prepend(results, report_data) == report_data \o results

\* merged_results.extend(report_data)
MergeExtend(results, report_data) == results \o report_data

Logged(m) == [m EXCEPT !.logged = @ + 1]

\* the body of the for loop, lines 319-342
MergeFile(m, file) ==
    IF file = Null
    THEN \* os.path.isfile(None): TypeError, outside every try
         [m EXCEPT !.raised = TRUE]
    ELSE IF ~isfile(m.disk, file) THEN Logged(m)
    ELSE IF m.disk[file].kind = "unreadable" THEN Logged(m)
    ELSE LET disk1 == OpenFile(m.disk, file, MergeOpenMode)
             m1 == [m EXCEPT !.disk = disk1]
             report == json_load(disk1[file].text)
         IN  IF MergeOpenMode # "r" THEN Logged(m1)
             ELSE IF ~report.ok THEN Logged(m1)
             ELSE IF report.is_list
             THEN [m1 EXCEPT !.results = MergeExtend(m.results, report.value)]
             ELSE Logged(m1)

RECURSIVE MergeLoop(_, _)
MergeLoop(m, files) ==
    IF files = << >> \/ m.raised THEN m
    ELSE MergeLoop(MergeFile(m, Head(files)), Tail(files))

merge_json_reports(files, disk) ==
    MergeLoop([results |-> << >>, raised |-> FALSE, logged |-> 0, disk |-> disk], files)

\* one call of merge_json_reports(json_report_files); the first call's outcome is kept
MergeCall ==
    /\ merge_calls < 2
    /\ LET m == merge_json_reports(json_report_files, fs)
       IN  /\ merge_state' = IF m.raised THEN "raised" ELSE "returned"
           /\ merged_results' = IF m.raised THEN << >> ELSE m.results
           /\ merge_logged' = m.logged
           /\ fs' = m.disk
           /\ first_results' =
                 IF merge_calls = 0
                 THEN [state |-> IF m.raised THEN "raised" ELSE "returned",
                       results |-> IF m.raised THEN << >> ELSE m.results]
                 ELSE first_results
    /\ merge_calls' = merge_calls + 1
    /\ UNCHANGED << collectorVars, json_report_files, fs0, tally_in, tally_out, extVars >>

\* ---- generate_report_statistics ------------------------------------------
TallyStatuses == {"passed", "failed", "skipped", "undefined", "error"}
TallyElements == {[name |-> "e"]} \cup {[name |-> "e", status |-> st] : st \in TallyStatuses}
TallyFeatures ==
    {[name |-> "f"]} \cup
    {[name |-> "f", elements |-> es] : es \in SeqUpTo(TallyElements, MaxTallyElements)}

\* lines 384-393
TallyScenario(t, scenario) ==
    LET scenario_status == IF "status" \in DOMAIN scenario THEN scenario["status"]
                           ELSE "unknown"
    IN  IF scenario_status = "passed" THEN [t EXCEPT !.passed = @ + 1]
        ELSE IF scenario_status = "failed" THEN [t EXCEPT !.failed = @ + 1]
        ELSE IF scenario_status = "skipped" THEN [t EXCEPT !.skipped = @ + 1]
        ELSE IF scenario_status = "undefined" THEN [t EXCEPT !.errors = @ + 1]
        ELSE t

RECURSIVE TallyScenarios(_, _)
TallyScenarios(t, scenarios) ==
    IF scenarios = << >> THEN t
    ELSE TallyScenarios(TallyScenario(t, Head(scenarios)), Tail(scenarios))

RECURSIVE TallyResults(_, _)
TallyResults(t, results) ==
    IF results = << >> THEN t
    ELSE TallyResults(TallyScenarios(t, ElementsOf(Head(results))), Tail(results))

generate_report_statistics(results) ==
    TallyResults([passed |-> 0, failed |-> 0, skipped |-> 0, errors |-> 0], results)

Tally ==
    /\ tally_out = NoObj
    /\ tally_out' = generate_report_statistics(tally_in)
    /\ UNCHANGED << collectorVars, fs, json_report_files, merged_results, merge_state,
                    merge_logged, merge_calls, first_results, fs0, tally_in, extVars >>

\* ---- specifications of the aggregator ------------------------------------
\* merge_json_reports on any path list (None stands for the path run_behave_test
\* returns when it fails before choosing a file) over any state of the files
InitMerge ==
    /\ InitIdleFormatter
    /\ InitIdleExt
    /\ fs \in [Paths -> FileStates]
    /\ fs0 = fs
    /\ json_report_files \in SeqUpTo(Paths \cup {Null}, MaxPaths)
    /\ merged_results = << >>
    /\ merge_state = "idle"
    /\ merge_logged = 0
    /\ merge_calls = 0
    /\ first_results = << >>
    /\ tally_in = << >>
    /\ tally_out = NoObj

NextMerge == MergeCall

SpecMerge == InitMerge /\ [][NextMerge]_vars

InitTally ==
    /\ InitIdleFormatter
    /\ InitIdleExt
    /\ fs = << >>
    /\ fs0 = << >>
    /\ json_report_files = << >>
    /\ merged_results = << >>
    /\ merge_state = "idle"
    /\ merge_logged = 0
    /\ merge_calls = 0
    /\ first_results = << >>
    /\ tally_in \in SeqUpTo(TallyFeatures, MaxTallyFeatures)
    /\ tally_out = NoObj

NextTally == Tally

SpecTally == InitTally /\ [][NextTally]_vars

\* ---- CustomContext objects (frameworkDataContext.py) ----------------------
\* In the specifications of the formatter the user_data of the one instance is
\* the variable user_data.  Here the objects are explicit: ctx_heap holds the
\* objects allocated, ctx_instance is the class attribute _instance (0 is None)
\* and ctx_handles are the references that CustomContext() returned to call sites.
CtxKeys == {"k"}
Namespaces == {"user_data", "test_data", "step_data", "feature_data"}

\* lines 6-10: the object allocated, with its four empty mappings
NewContextObject ==
    [user_data |-> EmptyDict, test_data |-> EmptyDict, step_data |-> EmptyDict,
     feature_data |-> EmptyDict]

\* faulty variant: every call allocates an object
CustomContext_new_always(inst, heap) ==
    [instance |-> Len(heap) + 1, heap |-> Append(heap, NewContextObject),
     ref |-> Len(heap) + 1]

\* CustomContext(): __new__ allocates when _instance is None and returns _instance
CustomContext_new(inst, heap) ==
    IF inst = 0
    THEN [instance |-> Len(heap) + 1, heap |-> Append(heap, NewContextObject),
          ref |-> Len(heap) + 1]
    ELSE [instance |-> inst, heap |-> heap, ref |-> inst]

set_test_data(obj, key, value) == [obj EXCEPT !.test_data = DictSet(@, key, value)]

get_test_data(obj, key) == DictGet(obj.test_data, key)

reset_step_data(obj) == [obj EXCEPT !.step_data = EmptyDict]

set_step_data(obj, key, value) == [obj EXCEPT !.step_data = DictSet(@, key, value)]

get_step_data(obj, key) == DictGet(obj.step_data, key)

set_feature_data(obj, key, value) == [obj EXCEPT !.feature_data = DictSet(@, key, value)]

get_feature_data(obj, key) == DictGet(obj.feature_data, key)

reset_feature_data(obj) == [obj EXCEPT !.feature_data = EmptyDict]

\* the write that ctx_last remembers, with the namespaces whose mapping has been
\* replaced so far
LastWrite(ns, key, value) == [ns |-> ns, key |-> key, value |-> value, reset |-> ctx_last.reset]

\* the mapping of ns was replaced: a write into ns is no longer the last write
AfterReset(ns) ==
    IF ctx_last.ns = ns
    THEN [ns |-> "none", key |-> << >>, value |-> Null, reset |-> ctx_last.reset \cup {ns}]
    ELSE [ctx_last EXCEPT !.reset = @ \cup {ns}]

ctxFrame == << collectorVars, reportVars, runVars, pureVars, clientVars >>

\* a call site takes a reference: CustomContext()
NewHandle ==
    /\ Len(ctx_handles) < MaxHandles
    /\ LET c == CustomContext_new(ctx_instance, ctx_heap)
       IN  /\ ctx_instance' = c.instance
           /\ ctx_heap' = c.heap
           /\ ctx_handles' = Append(ctx_handles, c.ref)
    /\ UNCHANGED << ctx_last, ctxFrame >>

\* the static methods: each evaluates CustomContext()
CtxSetUserData(key, value) ==
    /\ LET c == CustomContext_new(ctx_instance, ctx_heap)
       IN  /\ ctx_instance' = c.instance
           /\ ctx_heap' = [c.heap EXCEPT ![c.ref].user_data = set_user_data(@, key, value)]
    /\ ctx_last' = LastWrite("user_data", key, value)
    /\ UNCHANGED << ctx_handles, ctxFrame >>

CtxResetUserData(key) ==
    /\ LET c == CustomContext_new(ctx_instance, ctx_heap)
       IN  /\ ctx_instance' = c.instance
           /\ ctx_heap' = [c.heap EXCEPT ![c.ref].user_data = reset_user_data(@, key)]
    /\ ctx_last' = LastWrite("user_data", key, Null)
    /\ UNCHANGED << ctx_handles, ctxFrame >>

\* the instance methods, called on the reference that call site h holds
CtxSetTestData(h, key, value) ==
    /\ ctx_heap' = [ctx_heap EXCEPT ![ctx_handles[h]] = set_test_data(@, key, value)]
    /\ ctx_last' = LastWrite("test_data", << key >>, value)
    /\ UNCHANGED << ctx_instance, ctx_handles, ctxFrame >>

CtxSetStepData(h, key, value) ==
    /\ ctx_heap' = [ctx_heap EXCEPT ![ctx_handles[h]] = set_step_data(@, key, value)]
    /\ ctx_last' = LastWrite("step_data", << key >>, value)
    /\ UNCHANGED << ctx_instance, ctx_handles, ctxFrame >>

CtxSetFeatureData(h, key, value) ==
    /\ ctx_heap' = [ctx_heap EXCEPT ![ctx_handles[h]] = set_feature_data(@, key, value)]
    /\ ctx_last' = LastWrite("feature_data", << key >>, value)
    /\ UNCHANGED << ctx_instance, ctx_handles, ctxFrame >>

\* after_step (environment.py:88) and after_feature (environment.py:134)
CtxResetStepData(h) ==
    /\ ctx_heap' = [ctx_heap EXCEPT ![ctx_handles[h]] = reset_step_data(@)]
    /\ ctx_last' = AfterReset("step_data")
    /\ UNCHANGED << ctx_instance, ctx_handles, ctxFrame >>

CtxResetFeatureData(h) ==
    /\ ctx_heap' = [ctx_heap EXCEPT ![ctx_handles[h]] = reset_feature_data(@)]
    /\ ctx_last' = AfterReset("feature_data")
    /\ UNCHANGED << ctx_instance, ctx_handles, ctxFrame >>

\* a process in which no CustomContext() call was made yet
InitContext ==
    /\ InitIdleFormatter
    /\ fs = << >>
    /\ fs0 = << >>
    /\ json_report_files = << >>
    /\ merged_results = << >>
    /\ merge_state = "idle"
    /\ merge_logged = 0
    /\ merge_calls = 0
    /\ first_results = << >>
    /\ tally_in = << >>
    /\ tally_out = NoObj
    /\ clock = 0
    /\ workers = << >>
    /\ run_state = [pc |-> "idle", code |-> 0]
    /\ ctx_instance = 0
    /\ ctx_heap = << >>
    /\ ctx_handles = << >>
    /\ ctx_last = [ns |-> "none", key |-> << >>, value |-> Null, reset |-> {}]
    /\ pure_in = NoObj
    /\ pure_out = NoObj
    /\ request = NoObj

NextContext ==
    \/ NewHandle
    \/ \E key \in UserKeys, value \in UserValues : CtxSetUserData(key, value)
    \/ \E key \in UserKeys : CtxResetUserData(key)
    \/ \E h \in DOMAIN ctx_handles, key \in CtxKeys, value \in UserValues :
           CtxSetTestData(h, key, value)
    \/ \E h \in DOMAIN ctx_handles, key \in CtxKeys, value \in UserValues :
           CtxSetStepData(h, key, value)
    \/ \E h \in DOMAIN ctx_handles, key \in CtxKeys, value \in UserValues :
           CtxSetFeatureData(h, key, value)
    \/ \E h \in DOMAIN ctx_handles : CtxResetStepData(h)
    \/ \E h \in DOMAIN ctx_handles : CtxResetFeatureData(h)

SpecContext == InitContext /\ [][NextContext]_vars

\* ---- calls of pure functions ----------------------------------------------
\* the state in which one function is called on the argument pure_in
InitPureCall ==
    /\ InitIdleFormatter
    /\ request = NoObj
    /\ InitIdleRun
    /\ InitIdleContext
    /\ fs = << >>
    /\ fs0 = << >>
    /\ json_report_files = << >>
    /\ merged_results = << >>
    /\ merge_state = "idle"
    /\ merge_logged = 0
    /\ merge_calls = 0
    /\ first_results = << >>
    /\ tally_in = << >>
    /\ tally_out = NoObj
    /\ pure_out = NoObj

pureFrame == << collectorVars, reportVars, runVars, ctxVars, pure_in, clientVars >>

\* ---- generate_html_report (HTMLReportGenerator.py) ------------------------
\* A Python value: None, a str, a datetime, a list or a dict; the items of a dict
\* are its values in key order (the keys are kept by every function below).
PyNone == [t |-> "none", s |-> "", items |-> << >>]
PyStr(s) == [t |-> "str", s |-> s, items |-> << >>]
PyDatetime == [t |-> "datetime", s |-> "", items |-> << >>]
PyList(items) == [t |-> "list", s |-> "", items |-> items]
PyDict(items) == [t |-> "dict", s |-> "", items |-> items]

IsContainer(v) == v.t \in {"dict", "list"}

\* lines 14-20
handle_none_values(value) ==
    IF value.t = "none" THEN PyStr("N/A")
    ELSE IF IsContainer(value) /\ Len(value.items) = 0 THEN PyStr("No Data Available")
    ELSE value

\* lines 23-30: the recursion returns every leaf as it is
RECURSIVE handle_nested_data(_)
handle_nested_data(data) ==
    IF IsContainer(data)
    THEN [data EXCEPT !.items = [i \in DOMAIN data.items |-> handle_nested_data(data.items[i])]]
    ELSE data

\* lines 33-37
format_datetime(data) == IF data.t = "datetime" THEN PyStr("formatted") ELSE data

\* lines 45-48 of generate_html_report: the data handed to template.render
RenderedData(data) == format_datetime(handle_none_values(handle_nested_data(data)))

\* the values given to the renderer: leaves, and containers nested to MaxDepth
\* that hold one value, or a value followed by a leaf
RenderLeaves == {PyNone, PyStr("x"), PyDatetime, PyList(<< >>), PyDict(<< >>)}

RECURSIVE RenderValues(_)
RenderValues(depth) ==
    IF depth = 0 THEN RenderLeaves
    ELSE RenderLeaves
         \cup {PyList(<< v >>) : v \in RenderValues(depth - 1)}
         \cup {PyDict(<< v >>) : v \in RenderValues(depth - 1)}
         \cup {PyList(<< v, w >>) : v \in RenderValues(depth - 1), w \in RenderLeaves}

Render ==
    /\ pure_out = NoObj
    /\ pure_out' = RenderedData(pure_in)
    /\ UNCHANGED pureFrame

InitRender == InitPureCall /\ pure_in \in RenderValues(MaxDepth)

NextRender == Render

SpecRender == InitRender /\ [][NextRender]_vars

\* ---- calculate_duration (runner.py) ---------------------------------------
\* A time stamp string is its format and the second it names; None has the
\* format "none".
TimeFormats == {"%Y-%m-%d %H:%M:%S", "%Y-%m-%dT%H:%M:%S", "%Y-%m-%dT%H:%M:%S.%f", "other"}
TimeNone == [fmt |-> "none", secs |-> 0]
TimeStamps == {[fmt |-> f, secs |-> n] : f \in TimeFormats, n \in 0..MaxSecond}

\* the format of the time stamps of the formatter (strftime in feature(),
\* background(), scenario(), step(), result(), finish_previous_element_data())
CollectorTimeFormat == "%Y-%m-%d %H:%M:%S"

\* lines 597-610: strptime with the two formats of the list, None otherwise
parse_time(time_str) ==
    IF time_str.fmt \in {"%Y-%m-%dT%H:%M:%S.%f", "%Y-%m-%dT%H:%M:%S"}
    THEN [none |-> FALSE, secs |-> time_str.secs]
    ELSE [none |-> TRUE, secs |-> 0]

DurationNA == [kind |-> "N/A", seconds |-> 0]

\* lines 577-594
calculate_duration(scenario) ==
    LET start_time == parse_time(IF "start_time" \in DOMAIN scenario
                                 THEN scenario["start_time"] ELSE TimeNone)
        end_time == parse_time(IF "end_time" \in DOMAIN scenario
                               THEN scenario["end_time"] ELSE TimeNone)
    IN  IF ~start_time.none /\ ~end_time.none
        THEN [kind |-> "seconds", seconds |-> end_time.secs - start_time.secs]
        ELSE DurationNA

\* the scenario elements given to calculate_duration
DurationScenarios ==
    {[name |-> "s"]}
    \cup {[name |-> "s", start_time |-> a] : a \in TimeStamps \cup {TimeNone}}
    \cup {[name |-> "s", start_time |-> a, end_time |-> b] :
              a \in TimeStamps \cup {TimeNone}, b \in TimeStamps \cup {TimeNone}}

Duration ==
    /\ pure_out = NoObj
    /\ pure_out' = calculate_duration(pure_in)
    /\ UNCHANGED pureFrame

InitDuration == InitPureCall /\ pure_in \in DurationScenarios

NextDuration == Duration

SpecDuration == InitDuration /\ [][NextDuration]_vars

\* ---- the text of a step and the error message of a result ----------------
TextChars == {"a", "b", NL}
TextInputs == {NoText} \cup {Text(c) : c \in SeqUpTo(TextChars, MaxTextLen)}
ResultStatuses == {"passed", "failed", "error", "skipped", "undefined"}

\* step(): the dict built for a step with that text
StepText ==
    /\ pure_out = NoObj
    /\ pure_in.fn = "step"
    /\ pure_out' = step_data(pure_in.arg)
    /\ UNCHANGED pureFrame

\* result(): the result dict built for a step with that status and error message
ResultText ==
    /\ pure_out = NoObj
    /\ pure_in.fn = "result"
    /\ pure_out' = result_data(pure_in.arg)
    /\ UNCHANGED pureFrame

InitText ==
    /\ InitPureCall
    /\ pure_in \in
          {[fn |-> "step", arg |-> [name |-> 0, text |-> t]] : t \in TextInputs}
          \cup {[fn |-> "result", arg |-> [status |-> st, error_message |-> t]] :
                    st \in ResultStatuses, t \in TextInputs}

NextText == StepText \/ ResultText

SpecText == InitText /\ [][NextText]_vars

\* ---- run_behave_test and run_behave_tests ---------------------------------
\* datetime.now().strftime('%Y-%m-%d_%H-%M-%S') at second t, in the report path
ReportPath(t) == "behave_report_" \o ToString(t) \o ".json"

RunPaths == {ReportPath(t) : t \in 0..MaxClock}

\* the report behave writes for the feature files of worker w
WorkerReport(w) == << TokOpen, TokFeature(Rec(w)), TokClose >>

\* how behave_main ends: all tests passed, some failed, or it raised while the
\* report was being written
BehaveOutcomes == {"passed", "failed", "raised"}

\* the wall clock passes from one second to the next
Tick ==
    /\ run_state.pc = "pool"
    /\ clock < MaxClock
    /\ clock' = clock + 1
    /\ UNCHANGED << collectorVars, reportVars, workers, run_state, ctxVars, pureVars,
                    clientVars >>

\* run_behave_test up to behave_main (lines 401-437): the instance data is loaded
\* or not; the path is named after the second; the file is created when absent
WorkerStart(w, loaded) ==
    /\ run_state.pc = "pool"
    /\ workers[w].pc = "idle"
    /\ IF ~loaded
       THEN \* line 420 raises, line 446 returns (None, 1)
            /\ workers' = [workers EXCEPT ![w] = [pc |-> "done", path |-> Null, code |-> 1]]
            /\ UNCHANGED fs
       ELSE /\ workers' = [workers EXCEPT ![w] = [pc |-> "running",
                                                   path |-> ReportPath(clock), code |-> 0]]
            /\ fs' = IF fs[ReportPath(clock)].kind # "missing" THEN fs
                      ELSE [fs EXCEPT ![ReportPath(clock)] =
                                [kind |-> "file", text |-> << TokOpen, TokClose >>]]
    /\ UNCHANGED << collectorVars, json_report_files, merged_results, merge_state,
                    merge_logged, merge_calls, first_results, fs0, tally_in, tally_out,
                    clock, run_state, ctxVars, pureVars, clientVars >>

\* behave_main (line 438) writes the report to --outfile and run_behave_test
\* returns (lines 439-446)
WorkerRun(w, outcome) ==
    /\ run_state.pc = "pool"
    /\ workers[w].pc = "running"
    /\ fs' = [fs EXCEPT ![workers[w].path] =
                  [kind |-> "file",
                   text |-> IF outcome = "raised"
                            THEN SubSeq(WorkerReport(w), 1, 2)
                            ELSE WorkerReport(w)]]
    /\ workers' = [workers EXCEPT ![w].pc = "done",
                                   ![w].code = IF outcome = "passed" THEN 0 ELSE 1]
    /\ UNCHANGED << collectorVars, json_report_files, merged_results, merge_state,
                    merge_logged, merge_calls, first_results, fs0, tally_in, tally_out,
                    clock, run_state, ctxVars, pureVars, clientVars >>

\* faulty variant: the return code of the last result replaces the others
OverallReturnCode_last(code, results) ==
    IF results = << >> THEN code ELSE results[Len(results)].code

\* lines 470-473 and 477-480: the last return code that is not 0
RECURSIVE OverallReturnCode(_, _)
OverallReturnCode(code, results) ==
    IF results = << >> THEN code
    ELSE OverallReturnCode(IF Head(results).code # 0 THEN Head(results).code ELSE code,
                           Tail(results))

\* run_behave_tests once every worker has returned (lines 470-496): the paths are
\* collected in worker order and merged, the merged records are tallied; an
\* exception of merge_json_reports is logged and raised again
Collect ==
    /\ run_state.pc = "pool"
    /\ \A w \in DOMAIN workers : workers[w].pc = "done"
    /\ json_report_files' = [w \in DOMAIN workers |-> workers[w].path]
    /\ fs0' = fs
    /\ LET m == merge_json_reports(json_report_files', fs)
       IN  /\ merge_state' = IF m.raised THEN "raised" ELSE "returned"
           /\ merged_results' = IF m.raised THEN << >> ELSE m.results
           /\ merge_logged' = m.logged
           /\ fs' = m.disk
           /\ tally_in' = IF m.raised THEN << >> ELSE m.results
           /\ tally_out' = IF m.raised \/ m.results = << >> THEN NoObj
                            ELSE generate_report_statistics(m.results)
           /\ run_state' = IF m.raised THEN [pc |-> "raised", code |-> 0]
                            ELSE [pc |-> "returned",
                                  code |-> OverallReturnCode(0, workers)]
    /\ merge_calls' = merge_calls + 1
    /\ UNCHANGED << collectorVars, first_results, clock, workers, ctxVars, pureVars,
                    clientVars >>

\* run_behave_tests with a pool of 2..MaxWorkers workers, or with the one
\* run_behave_test call of the sequential branch
InitRun ==
    /\ InitIdleFormatter
    /\ fs = [p \in RunPaths |-> [kind |-> "missing"]]
    /\ fs0 = << >>
    /\ json_report_files = << >>
    /\ merged_results = << >>
    /\ merge_state = "idle"
    /\ merge_logged = 0
    /\ merge_calls = 0
    /\ first_results = << >>
    /\ tally_in = << >>
    /\ tally_out = NoObj
    /\ clock = 0
    /\ \E n \in 1..MaxWorkers :
           workers = [w \in 1..n |-> [pc |-> "idle", path |-> Null, code |-> 0]]
    /\ run_state = [pc |-> "pool", code |-> 0]
    /\ ctx_instance = 0
    /\ ctx_heap = << >>
    /\ ctx_handles = << >>
    /\ ctx_last = NoObj
    /\ pure_in = NoObj
    /\ pure_out = NoObj
    /\ request = NoObj

NextRun ==
    \/ Tick
    \/ \E w \in DOMAIN workers, loaded \in BOOLEAN : WorkerStart(w, loaded)
    \/ \E w \in DOMAIN workers, outcome \in BehaveOutcomes : WorkerRun(w, outcome)
    \/ Collect

SpecRun == InitRun /\ [][NextRun]_vars

----------------------------------------------------------------------------
\* ---- properties of the aggregator ----------------------------------------
RECURSIVE SumSeq(_)
SumSeq(q) == IF q = << >> THEN 0 ELSE Head(q) + SumSeq(Tail(q))

\* C6 as claimed: the four tallies partition the elements: passed, failed and
\* skipped count the elements with that status, errors counts every other element
\* (any other status, or none), so the four add up to the number of elements.
C6_FourBucketsCountEveryElement ==
    tally_out # NoObj =>
        LET all == {<< i, j >> \in (1..Len(tally_in)) \X (1..MaxTallyElements) :
                        j <= Len(ElementsOf(tally_in[i]))}
            With(st) == {p \in all : /\ "status" \in DOMAIN ElementsOf(tally_in[p[1]])[p[2]]
                                     /\ ElementsOf(tally_in[p[1]])[p[2]]["status"] = st}
        IN  /\ tally_out.passed = Cardinality(With("passed"))
            /\ tally_out.failed = Cardinality(With("failed"))
            /\ tally_out.skipped = Cardinality(With("skipped"))
            /\ tally_out.errors =
                  Cardinality(all \ (With("passed") \cup With("failed") \cup With("skipped")))
            /\ tally_out.passed + tally_out.failed + tally_out.skipped + tally_out.errors
                  = Cardinality(all)

\* the shard at position i of the path list is one merge_json_reports must merge
ValidShard(i) ==
    /\ json_report_files[i] # Null
    /\ fs0[json_report_files[i]].kind = "file"
    /\ IsJsonArrayText(fs0[json_report_files[i]].text)

ShardLen(i) ==
    IF ValidShard(i) THEN (Len(fs0[json_report_files[i]].text) - 1) \div 2 ELSE 0

\* the number of records of the valid shards before position i
Offset(i) == SumSeq([k \in 1..(i - 1) |-> ShardLen(k)])

\* the list is the valid shards' arrays, in path order and shard order
IsConcatenationOfValidShards(list) ==
    /\ Len(list) = Offset(Len(json_report_files) + 1)
    /\ \A i \in 1..Len(json_report_files) :
          \A j \in 1..ShardLen(i) :
              list[Offset(i) + j] = fs0[json_report_files[i]].text[2 * j].json

\* C7 as claimed: merge_json_reports returns for every path list, whatever the
\* entries are, and returns the records of the usable entries.
C7_MergeNeverAborts ==
    merge_calls > 0 =>
        /\ merge_state = "returned"
        /\ IsConcatenationOfValidShards(merged_results)

\* C8: the list merge_json_reports returns is the concatenation of the arrays of
\* the valid shards in the order of the path list, each in its own order (so its
\* length is the sum of their lengths); for the empty path list it is empty.
C8_MergeIsConcatenation ==
    merge_state = "returned" =>
        /\ IsConcatenationOfValidShards(merged_results)
        /\ json_report_files = << >> => merged_results = << >>

\* two valid shards with different records, merged in path order
C8_Witness ==
    /\ merge_state = "returned"
    /\ Len(json_report_files) = 2
    /\ ShardLen(1) = 2
    /\ ShardLen(2) = 1
    /\ Len(merged_results) = 3

\* C9: a second call of merge_json_reports with the same path list ends as the first
\* did, with an equal list, and the calls leave every file as it was.
C9_MergeRepeatableReadOnly ==
    /\ merge_calls > 0 => fs = fs0
    /\ merge_calls = 2 =>
          /\ merge_state = first_results.state
          /\ merged_results = first_results.results

\* two calls that merged a shard
C9_Witness ==
    /\ merge_calls = 2
    /\ merge_state = "returned"
    /\ Len(merged_results) > 0

\* ---- properties of run_behave_tests (SpecRun) ----------------------------
\* C13 as claimed: two workers that have chosen a report path have chosen
\* different paths, and the path list that is merged holds no path twice.
C13_DistinctReportPaths ==
    /\ \A w1, w2 \in DOMAIN workers :
          (w1 # w2 /\ workers[w1].path # Null /\ workers[w2].path # Null)
              => workers[w1].path # workers[w2].path
    /\ \A i, j \in DOMAIN json_report_files :
          (i # j /\ json_report_files[i] # Null) => json_report_files[i] # json_report_files[j]

\* C14 as claimed: whatever workers failed, run_behave_tests returns and has
\* merged the records of every shard that is a valid report.
C14_SurvivingShardsMerged ==
    run_state.pc \in {"returned", "raised"} =>
        /\ run_state.pc = "returned"
        /\ IsConcatenationOfValidShards(merged_results)

\* ---- properties of CustomContext (SpecContext) ----------------------------
\* what a read of key in namespace ns returns through reference r
ReadThrough(r, ns, key) == DictGet(ctx_heap[r][ns], key)

\* C15: every reference that CustomContext() returned is the one object _instance,
\* and the value last written into a namespace, through any reference or through
\* the static methods, is what a read returns through every reference and through
\* the static get_user_data, also after a namespace mapping was replaced.
C15_OneProcessWideStore ==
    /\ \A h \in DOMAIN ctx_handles : ctx_handles[h] = ctx_instance
    /\ ctx_last.ns # "none" =>
          /\ \A h \in DOMAIN ctx_handles :
                ReadThrough(ctx_handles[h], ctx_last.ns, IF ctx_last.ns = "user_data"
                                                         THEN ctx_last.key
                                                         ELSE ctx_last.key[1])
                    = ctx_last.value
          /\ ctx_last.ns = "user_data" =>
                get_user_data(
                    CustomContext_new(ctx_instance, ctx_heap).heap[
                        CustomContext_new(ctx_instance, ctx_heap).ref].user_data,
                    ctx_last.key) = ctx_last.value

\* two call sites hold a reference, step_data was replaced by reset_step_data()
\* and has been written again
C15_Witness ==
    /\ Len(ctx_handles) = 2
    /\ ctx_last.ns = "step_data"
    /\ "step_data" \in ctx_last.reset
    /\ ReadThrough(ctx_handles[1], "step_data", "k") = "v1"
    /\ ReadThrough(ctx_handles[2], "step_data", "k") = "v1"

\* the object the static methods work on, before and after a step
ContextBefore ==
    IF ctx_instance = 0 THEN NewContextObject ELSE ctx_heap[ctx_instance]

ContextAfter == ctx_heap'[ctx_instance']

\* C16: reset_user_data(key) leaves the key in user_data with the value null,
\* whether it was there or not, and changes no other key and no other namespace;
\* reset_step_data() and reset_feature_data() leave their own namespace empty and
\* the other three as they were.
C16_ResetFrame ==
    [][ /\ \A key \in UserKeys :
              CtxResetUserData(key) =>
                  /\ DOMAIN ContextAfter.user_data = DOMAIN ContextBefore.user_data \cup {key}
                  /\ ContextAfter.user_data[key] = Null
                  /\ \A k \in DOMAIN ContextBefore.user_data \ {key} :
                        ContextAfter.user_data[k] = ContextBefore.user_data[k]
                  /\ \A ns \in Namespaces \ {"user_data"} :
                        ContextAfter[ns] = ContextBefore[ns]
        /\ \A h \in DOMAIN ctx_handles :
              CtxResetStepData(h) =>
                  /\ ContextAfter.step_data = EmptyDict
                  /\ \A ns \in Namespaces \ {"step_data"} :
                        ContextAfter[ns] = ContextBefore[ns]
        /\ \A h \in DOMAIN ctx_handles :
              CtxResetFeatureData(h) =>
                  /\ ContextAfter.feature_data = EmptyDict
                  /\ \A ns \in Namespaces \ {"feature_data"} :
                        ContextAfter[ns] = ContextBefore[ns]
      ]_vars

\* reset_user_data has put a key that was never set into user_data, next to a key
\* that keeps its value, while step_data holds a value
C16_Witness ==
    /\ ctx_instance # 0
    /\ K_screenshot \in DOMAIN ctx_heap[ctx_instance].user_data
    /\ ctx_heap[ctx_instance].user_data[K_screenshot] = Null
    /\ ctx_last = [ns |-> "user_data", key |-> K_screenshot, value |-> Null, reset |-> {}]
    /\ DictGet(ctx_heap[ctx_instance].user_data, K_inputdata_x) = "v1"
    /\ DictGet(ctx_heap[ctx_instance].step_data, "k") = "v1"

\* ---- properties of the renderers and of the texts ------------------------
\* the value with every None leaf and every empty dict or list replaced, at
\* every depth
RECURSIVE WithPlaceholders(_)
WithPlaceholders(v) ==
    IF v.t = "none" THEN PyStr("N/A")
    ELSE IF IsContainer(v) /\ Len(v.items) = 0 THEN PyStr("No Data Available")
    ELSE IF IsContainer(v)
    THEN [v EXCEPT !.items = [i \in DOMAIN v.items |-> WithPlaceholders(v.items[i])]]
    ELSE v

\* C18 as claimed: the data handed to the template is the input with every None
\* leaf replaced by "N/A" and every empty dict or list replaced by "No Data
\* Available", at any depth, and is otherwise the input.
C18_PlaceholdersAtAnyDepth ==
    pure_out # NoObj => pure_out = format_datetime(WithPlaceholders(pure_in))

Parsable(scenario, key) ==
    /\ key \in DOMAIN scenario
    /\ scenario[key].fmt \in
          {CollectorTimeFormat, "%Y-%m-%dT%H:%M:%S", "%Y-%m-%dT%H:%M:%S.%f"}

\* C19 as claimed: the duration of a scenario element whose two time stamps are
\* present, in the format of the Collector or in one of the two ISO formats, is
\* end_time - start_time; it is "N/A" only when one is missing or unparsable.
C19_DurationOfFinalizedScenario ==
    pure_out # NoObj =>
        IF Parsable(pure_in, "start_time") /\ Parsable(pure_in, "end_time")
        THEN pure_out = [kind |-> "seconds",
                         seconds |-> pure_in["end_time"].secs - pure_in["start_time"].secs]
        ELSE pure_out = DurationNA

\* the lines of a text joined by newlines
RECURSIVE JoinLines(_)
JoinLines(lines) ==
    IF lines = << >> THEN << >>
    ELSE IF Len(lines) = 1 THEN lines[1]
    ELSE lines[1] \o << NL >> \o JoinLines(Tail(lines))

\* value is how the text is stored: the text itself when it has no newline, else
\* its lines: no line holds a newline, and the lines joined by newlines are the
\* text without the newline that ends it, if one does
StoredAs(value, chars) ==
    IF \A i \in 1..Len(chars) : chars[i] # NL
    THEN value = [kind |-> "str", lines |-> << chars >>]
    ELSE /\ value.kind = "list"
         /\ \A i \in 1..Len(value.lines) :
               \A j \in 1..Len(value.lines[i]) : value.lines[i][j] # NL
         /\ JoinLines(value.lines) =
               IF chars[Len(chars)] = NL THEN SubSeq(chars, 1, Len(chars) - 1) ELSE chars

\* C20: the text of a step, and the error message of a failed or error result, is
\* stored as one string when it holds no newline and as the list of its lines
\* when it does; a step whose text is empty or None has no text field (a result
\* whose message is empty or None, or whose status is another, no error_message).
C20_TextStoredAsStringOrLines ==
    pure_out # NoObj =>
        IF pure_in.fn = "step"
        THEN IF pure_in.arg.text.none \/ pure_in.arg.text.chars = << >>
             THEN "text" \notin DOMAIN pure_out
             ELSE /\ "text" \in DOMAIN pure_out
                  /\ StoredAs(pure_out["text"], pure_in.arg.text.chars)
        ELSE IF \/ pure_in.arg.error_message.none
                \/ pure_in.arg.error_message.chars = << >>
                \/ pure_in.arg.status \notin {"failed", "error"}
             THEN "error_message" \notin DOMAIN pure_out
             ELSE /\ "error_message" \in DOMAIN pure_out
                  /\ StoredAs(pure_out["error_message"], pure_in.arg.error_message.chars)

\* step() on the text "a\nb": the step holds the list ["a", "b"]
C20_Witness ==
    /\ pure_out # NoObj
    /\ pure_in.fn = "step"
    /\ pure_in.arg.text = Text(<< "a", NL, "b" >>)
    /\ pure_out["text"] = [kind |-> "list", lines |-> << << "a" >>, << "b" >> >>]

\* ---- the step cursor ------------------------------------------------------
CurrentSteps == current_feature_element(current_feature_data)["steps"]

\* C21: while an element is open the step cursor equals the number of result()
\* calls that returned since background() or scenario() opened it, and lies
\* between 0 and the number of steps of that element; background() and
\* scenario() set it to 0, a result() that returns advances it by exactly one,
\* and step(), match() and embedding() leave it alone.
C21_CursorCountsResults ==
    /\ [](HasCurrentElement(current_feature_data) =>
             /\ step_index = result_calls
             /\ 0 <= step_index
             /\ step_index <= Len(CurrentSteps))
    /\ [][/\ (\E k \in 0..1 : Background(BackgroundObj(n_elements + 1, k), "passed"))
                => step_index' = 0
          /\ Scenario(ScenarioObj(n_elements + 1), "passed") => step_index' = 0
          /\ (Result(PassedResult) /\ ~raised') => step_index' = step_index + 1
          /\ (\E st \in StepObjs : Step(st)) => step_index' = step_index
          /\ (\E m \in PlainMatches : Match(m)) => step_index' = step_index
          /\ Embedding("image/png", Attachment(n_embeds + 1))
                => step_index' = step_index]_vars

\* the second element is open and its first step has its result, after a result
\* in the first element had advanced the cursor there
C21_Witness ==
    /\ HasCurrentElement(current_feature_data)
    /\ Len(current_feature_data["elements"]) = 2
    /\ Len(current_feature_data["elements"][1]["steps"]) = 1
    /\ "result" \in DOMAIN current_feature_data["elements"][1]["steps"][1]
    /\ Len(CurrentSteps) = 1
    /\ "result" \in DOMAIN CurrentSteps[1]
    /\ step_index = 1
    /\ result_calls = 1

\* ---- the frame of match(), result() and embedding() -----------------------
\* at most the step under the cursor differs between the feature dicts d0 and d1
OnlyCursorStepDiffers(d0, d1, i) ==
    /\ DOMAIN d1 = DOMAIN d0
    /\ \A k \in DOMAIN d0 \ {"elements"} : d1[k] = d0[k]
    /\ Len(d1["elements"]) = Len(d0["elements"])
    /\ \A j \in 1..(Len(d0["elements"]) - 1) : d1["elements"][j] = d0["elements"][j]
    /\ LET e0 == Last(d0["elements"])
           e1 == Last(d1["elements"])
       IN  /\ DOMAIN e1 = DOMAIN e0
           /\ \A k \in DOMAIN e0 \ {"steps"} : e1[k] = e0[k]
           /\ Len(e1["steps"]) = Len(e0["steps"])
           /\ \A j \in 1..Len(e0["steps"]) : j # i + 1 => e1["steps"][j] = e0["steps"][j]

\* the embeddings of a step dict, none when the key is missing
EmbeddingsOf(stepd) == IF "embeddings" \in DOMAIN stepd THEN stepd["embeddings"] ELSE << >>

\* what the formatter keeps besides the feature dict and the cursor
WrittenElsewhere == << feature_count, current_feature, current_scenario, stream, stream_open >>

\* C22: match(), result() and embedding() change nothing but the step under the
\* cursor in the current element (every other step, every earlier element, every
\* other field of the feature and the output written so far stay as they were);
\* a match without a location changes nothing, and embedding() appends its
\* attachment behind those the step already has and touches no other key of it.
C22_WritesOnlyCursorStep ==
    [][/\ ((\E m \in PlainMatches : Match(m)) \/ Result(PassedResult)
             \/ Embedding("image/png", Attachment(n_embeds + 1)))
            => /\ UNCHANGED WrittenElsewhere
               /\ IF raised' THEN UNCHANGED current_feature_data
                  ELSE \/ UNCHANGED current_feature_data
                       \/ OnlyCursorStepDiffers(current_feature_data,
                                                current_feature_data', step_index)
       /\ (\E m \in PlainMatches : ~m.location /\ Match(m))
            => UNCHANGED << formatterVars, user_data, raised >>
       /\ (Embedding("image/png", Attachment(n_embeds + 1)) /\ ~raised')
            => LET s0 == StepAt(current_feature_data, step_index)
                   s1 == StepAt(current_feature_data', step_index)
               IN  /\ s1["embeddings"] =
                          Append(EmbeddingsOf(s0),
                                 [mime_type |-> "image/png",
                                  data |-> Base64(Attachment(n_embeds + 1))])
                   /\ \A k \in DOMAIN s0 \ {"embeddings"} :
                          k \in DOMAIN s1 /\ s1[k] = s0[k]]_vars

\* the first step has its result and nothing else; the step under the cursor has
\* its match and both attachments, in the order of the calls
C22_Witness ==
    /\ HasCurrentElement(current_feature_data)
    /\ Len(CurrentSteps) = 2
    /\ step_index = 1
    /\ "result" \in DOMAIN CurrentSteps[1]
    /\ {"match", "embeddings"} \cap DOMAIN CurrentSteps[1] = {}
    /\ "match" \in DOMAIN CurrentSteps[2]
    /\ "result" \notin DOMAIN CurrentSteps[2]
    /\ EmbeddingsOf(CurrentSteps[2]) =
           << [mime_type |-> "image/png", data |-> Base64(Attachment(1))],
              [mime_type |-> "image/png", data |-> Base64(Attachment(2))] >>

\* ---- the finalization of scenario elements --------------------------------
\* the retry count of the scenario object that opened the element e
OwnRetry(e) == ScenarioObj(e["name"]).retry_attempts

Unfinalized(e) ==
    e["status"] = Null /\ e["end_time"] = Null /\ e["retry_attempts"] = OwnRetry(e)

FinalizedFromOwn(e) ==
    e["status"] \in ScenarioStatuses /\ e["end_time"] = TS /\ e["retry_attempts"] = OwnRetry(e)

\* the element that was current before the step, as the step leaves it: in the
\* feature dict when an element was added, in the record written when eof() ran
PreviousElementAfter ==
    IF current_feature_data' # NoObj
    THEN current_feature_data'["elements"][Len(current_feature_data["elements"])]
    ELSE Last(Last(stream').json["elements"])

\* C23 as claimed: from scenario() until the next background(), scenario() or
\* eof() the status, the end_time and the retry_attempts of the scenario element
\* are unset (a retry count is a number wherever the collector stores one, so an
\* unset one is a missing key).
C23_UnsetUntilFinalized ==
    (HasCurrentElement(current_feature_data)
        /\ current_feature_element(current_feature_data)["type"] = "scenario") =>
        LET e == current_feature_element(current_feature_data)
        IN  /\ e["status"] = Null
            /\ e["end_time"] = Null
            /\ "retry_attempts" \notin DOMAIN e

\* the scenario element that is open is not finalized, and is the element of
\* current_scenario
OpenScenarioPending ==
    (HasCurrentElement(current_feature_data)
        /\ current_feature_element(current_feature_data)["type"] = "scenario") =>
        /\ Unfinalized(current_feature_element(current_feature_data))
        /\ current_scenario # NoObj
        /\ current_scenario.name = current_feature_element(current_feature_data)["name"]

EarlierScenariosFinalized ==
    current_feature_data # NoObj =>
        \A j \in 1..(Len(ElementsOf(current_feature_data)) - 1) :
            ElementsOf(current_feature_data)[j]["type"] = "scenario" =>
                FinalizedFromOwn(ElementsOf(current_feature_data)[j])

WrittenScenariosFinalized ==
    \A i \in FeaturePositions :
        \A j \in 1..Len(ElementsOf(stream[i].json)) :
            ElementsOf(stream[i].json)[j]["type"] = "scenario" =>
                FinalizedFromOwn(ElementsOf(stream[i].json)[j])

\* C23 amended: a scenario element keeps status None and end_time None, and the
\* retry count of its scenario that scenario() stored, from scenario() until the
\* next background(), scenario() or eof(); that event writes the status then read
\* from the scenario object that opened the element, an end_time and the retry
\* count of that same object; afterwards no event changes the element, in the
\* feature dict or in the output.
C23_FinalizedOnceFromOwnScenario ==
    /\ [](OpenScenarioPending /\ EarlierScenariosFinalized /\ WrittenScenariosFinalized)
    /\ [][/\ \A v \in ScenarioStatuses :
                (/\ HasCurrentElement(current_feature_data)
                 /\ current_feature_element(current_feature_data)["type"] = "scenario"
                 /\ \/ \E k \in 0..1 : Background(BackgroundObj(n_elements + 1, k), v)
                    \/ Scenario(ScenarioObj(n_elements + 1), v)
                    \/ \E fv \in FeatureStatuses : Eof(v, fv))
                => /\ PreviousElementAfter["status"] = v
                   /\ PreviousElementAfter["name"] = current_scenario.name
                   /\ PreviousElementAfter["retry_attempts"] = current_scenario.retry_attempts
          /\ (/\ HasCurrentElement(current_feature_data)
              /\ HasCurrentElement(current_feature_data')
              /\ current_feature_data'["name"] = current_feature_data["name"])
                => \A j \in 1..(Len(current_feature_data["elements"]) - 1) :
                       current_feature_data'["elements"][j] =
                           current_feature_data["elements"][j]
          /\ SubSeq(stream', 1, Len(stream)) = stream]_vars

\* a feature written with two scenarios, the first failed and never retried, the
\* second passed on its first retry
C23_Witness ==
    \E i \in FeaturePositions :
        LET es == ElementsOf(stream[i].json)
        IN  /\ Len(es) = 2
            /\ es[1]["type"] = "scenario" /\ es[2]["type"] = "scenario"
            /\ es[1]["status"] = "failed" /\ es[1]["retry_attempts"] = 0
            /\ es[2]["status"] = "passed" /\ es[2]["retry_attempts"] = 1

\* ---- the error message of a result ----------------------------------------
\* C24: the result dict of a step has an error_message key exactly when the
\* status of the step is failed or error and its error message is a non-empty
\* string; a passed, skipped or undefined result has none, whatever the message.
C24_ErrorMessageIffFailedWithMessage ==
    (pure_out # NoObj /\ pure_in.fn = "result") =>
        /\ pure_out["status"] = pure_in.arg.status
        /\ "error_message" \in DOMAIN pure_out <=>
              /\ pure_in.arg.status \in {"failed", "error"}
              /\ ~pure_in.arg.error_message.none
              /\ pure_in.arg.error_message.chars # << >>

\* result() of a step with status error and the message "a"
C24_Witness ==
    /\ pure_out # NoObj
    /\ pure_in.fn = "result"
    /\ pure_in.arg.status = "error"
    /\ pure_in.arg.error_message = Text(<< "a" >>)
    /\ "error_message" \in DOMAIN pure_out

\* ---- run_behave_tests: the split of the feature files (runner.py) ---------
\* the feature file at list position p (0-based) of a list of n files
FeatureFile(p) == << "feature", p >>
FeatureDirs(n) == [k \in 1..n |-> FeatureFile(k - 1)]

\* faulty variant: the files are cut into consecutive runs
ExtendedSlice_contiguous(seq, start, step) ==
    LET size == (Len(seq) + step - 1) \div step
        first == start * size
        count == IF first >= Len(seq) THEN 0
                 ELSE IF first + size > Len(seq) THEN Len(seq) - first ELSE size
    IN  [k \in 1..count |-> seq[first + k]]

\* seq[start::step] for 0 <= start and step >= 1
ExtendedSlice(seq, start, step) ==
    LET count == IF start >= Len(seq) THEN 0 ELSE (Len(seq) - start + step - 1) \div step
    IN  [k \in 1..count |-> seq[start + (k - 1) * step + 1]]

\* line 465
feature_dirs_split(feature_dirs, max_parallel_jobs) ==
    [i \in 1..max_parallel_jobs |-> ExtendedSlice(feature_dirs, i - 1, max_parallel_jobs)]

\* lines 461-480: the argument lists of the run_behave_test calls; Pool(n) raises
\* ValueError for n < 1
Dispatch ==
    /\ pure_out = NoObj
    /\ pure_in.fn = "run_behave_tests"
    /\ pure_out' =
          IF pure_in.parallel_run /\ Len(pure_in.feature_dirs) >= pure_in.max_parallel_jobs
          THEN [branch |-> "parallel",
                raised |-> pure_in.max_parallel_jobs < 1,
                shards |-> feature_dirs_split(pure_in.feature_dirs,
                                              pure_in.max_parallel_jobs)]
          ELSE [branch |-> "sequential", raised |-> FALSE,
                shards |-> << pure_in.feature_dirs >>]
    /\ UNCHANGED pureFrame

InitDispatch ==
    /\ InitPureCall
    /\ pure_in \in
          {[fn |-> "run_behave_tests", parallel_run |-> par, max_parallel_jobs |-> jobs,
            feature_dirs |-> FeatureDirs(n)] :
               par \in BOOLEAN, jobs \in 0..MaxJobs, n \in 0..MaxFeatureFiles}

NextDispatch == Dispatch

SpecDispatch == InitDispatch /\ [][NextDispatch]_vars

\* the (worker, place) pairs at which the shards hold the file f
Holders(shards, f) ==
    {w \in (1..Len(shards)) \X (1..MaxFeatureFiles + 1) :
        w[2] <= Len(shards[w[1]]) /\ shards[w[1]][w[2]] = f}

\* C25: in the parallel branch with a pool of max_parallel_jobs >= 1 workers,
\* worker i (0-based) gets the files at the list positions congruent to i modulo
\* max_parallel_jobs, in list order; every file is given to exactly one worker,
\* the shard sizes differ by at most one, and no shard is empty.
C25_RoundRobinPartition ==
    (/\ pure_out # NoObj
     /\ pure_in.fn = "run_behave_tests"
     /\ pure_out.branch = "parallel"
     /\ ~pure_out.raised) =>
        LET n == pure_in.max_parallel_jobs
            files == pure_in.feature_dirs
            shards == pure_out.shards
        IN  /\ Len(shards) = n
            /\ \A i \in 0..(n - 1) :
                  /\ \A k \in 1..Len(shards[i + 1]) :
                        \E p \in 0..(Len(files) - 1) :
                            /\ p % n = i
                            /\ shards[i + 1][k] = files[p + 1]
                            /\ k = Cardinality({q \in 0..p : q % n = i})
                  /\ Len(shards[i + 1]) =
                        Cardinality({p \in 0..(Len(files) - 1) : p % n = i})
                  /\ Len(shards[i + 1]) >= 1
            /\ \A p \in 1..Len(files) : Cardinality(Holders(shards, files[p])) = 1
            /\ \A i, j \in 1..n : Len(shards[i]) - Len(shards[j]) <= 1

\* five files for two workers: positions 0, 2, 4 and positions 1, 3
C25_Witness ==
    /\ pure_out # NoObj
    /\ pure_in.fn = "run_behave_tests"
    /\ pure_out.branch = "parallel"
    /\ pure_out.shards =
           << << FeatureFile(0), FeatureFile(2), FeatureFile(4) >>,
              << FeatureFile(1), FeatureFile(3) >> >>

\* ---- extract_report_details (runner.py) -----------------------------------
\* A record of the merged list has the shape the collector writes: the keys name,
\* location, tags, start_time and end_time, which the model does not vary, are in
\* every feature and element; "elements", and "status" and "steps" of an element,
\* are the subscripts that can be missing.
DetailsKeyError(results) ==
    \E i \in 1..Len(results) :
        \/ "elements" \notin DOMAIN results[i]
        \/ \E j \in 1..Len(results[i]["elements"]) :
               ~({"status", "steps"} \subseteq DOMAIN results[i]["elements"][j])

\* ' '.join(items) for a sequence of strings
RECURSIVE SpaceJoin(_)
SpaceJoin(items) ==
    IF items = << >> THEN << >>
    ELSE IF Len(items) = 1 THEN items[1]
    ELSE items[1] \o << " " >> \o SpaceJoin(Tail(items))

\* what str.join iterates over: the elements of a list, the characters of a str
Iterated(value) ==
    IF value.kind = "list" THEN value.lines
    ELSE [i \in 1..Len(value.lines[1]) |-> << value.lines[1][i] >>]

NotAvailable == << "N", "/", "A" >>

\* line 554
failure_reason(step) ==
    LET result == IF "result" \in DOMAIN step THEN step["result"] ELSE EmptyDict
        joined == IF "error_message" \in DOMAIN result
                  THEN SpaceJoin(Iterated(result["error_message"]))
                  ELSE << >>
    IN  IF joined # << >> THEN joined ELSE NotAvailable

\* lines 546-555
step_details(step) == [name |-> step["name"], failure_reason |-> failure_reason(step)]

\* lines 525-533, 545-556
scenario_details(scenario) ==
    [name |-> scenario["name"], status |-> scenario["status"],
     steps |-> [k \in 1..Len(scenario["steps"]) |-> step_details(scenario["steps"][k])]]

\* lines 508-514, 524-560
feature_details(feature) ==
    [name |-> feature["name"], status |-> feature["status"],
     scenarios |-> [j \in 1..Len(feature["elements"]) |->
                       scenario_details(feature["elements"][j])]]

\* lines 536-543
DetailsScenario(t, scenario) ==
    IF scenario["status"] = "passed" THEN [t EXCEPT !.passed_scenarios = @ + 1]
    ELSE IF scenario["status"] = "failed" THEN [t EXCEPT !.failed_scenarios = @ + 1]
    ELSE IF scenario["status"] = "skipped" THEN [t EXCEPT !.skipped_scenarios = @ + 1]
    ELSE [t EXCEPT !.error_scenarios = @ + 1]

RECURSIVE DetailsScenarios(_, _)
DetailsScenarios(t, scenarios) ==
    IF scenarios = << >> THEN t
    ELSE DetailsScenarios(DetailsScenario(t, Head(scenarios)), Tail(scenarios))

\* lines 515-522
DetailsFeature(t, feature) ==
    IF feature["status"] = "passed" THEN [t EXCEPT !.passed_features = @ + 1]
    ELSE IF feature["status"] = "failed" THEN [t EXCEPT !.failed_features = @ + 1]
    ELSE IF feature["status"] = "skipped" THEN [t EXCEPT !.skipped_features = @ + 1]
    ELSE [t EXCEPT !.error_features = @ + 1]

RECURSIVE DetailsResults(_, _)
DetailsResults(t, results) ==
    IF results = << >> THEN t
    ELSE DetailsResults(
             DetailsScenarios(DetailsFeature(t, Head(results)), Head(results)["elements"]),
             Tail(results))

\* line 573
ScenarioCount(t) ==
    t.passed_scenarios + t.failed_scenarios + t.skipped_scenarios + t.error_scenarios

\* the dict returned, or the KeyError that leaves the function
extract_report_details(results) ==
    IF DetailsKeyError(results) THEN [raised |-> TRUE]
    ELSE LET t == DetailsResults(
                      [passed_features |-> 0, failed_features |-> 0,
                       skipped_features |-> 0, error_features |-> 0,
                       passed_scenarios |-> 0, failed_scenarios |-> 0,
                       skipped_scenarios |-> 0, error_scenarios |-> 0], results)
         IN  [raised |-> FALSE,
              features |-> [i \in 1..Len(results) |-> feature_details(results[i])],
              tallies |-> t,
              feature_count |-> Len(results),
              scenario_count |-> ScenarioCount(t)]

\* the merged lists given to both tally computations: features with and without
\* elements, elements of every status (None and "" included) without steps
DetailStatuses == TallyStatuses \cup {Null, ""}
DetailElements == {[name |-> "e", status |-> st, steps |-> << >>] : st \in DetailStatuses}
DetailFeatures ==
    {[name |-> "f", status |-> "passed"]} \cup
    {[name |-> "f", status |-> "passed", elements |-> es] :
         es \in SeqUpTo(DetailElements, MaxTallyElements)}

\* the step dict the collector has stored when result() was called, or was not,
\* for a step with that status and error message
StoredStep(arg) ==
    IF arg.result THEN DictSet([name |-> 0], "result", result_data(arg.step))
    ELSE [name |-> 0]

\* lines 483 and 621: both tally computations on the merged list
ReportTallies ==
    /\ pure_out = NoObj
    /\ pure_in.fn = "tallies"
    /\ pure_out' = [statistics |-> generate_report_statistics(pure_in.results),
                    details |-> extract_report_details(pure_in.results)]
    /\ UNCHANGED pureFrame

\* extract_report_details on a feature whose one scenario has that one step
ReportStep ==
    /\ pure_out = NoObj
    /\ pure_in.fn = "step"
    /\ pure_out' =
          [step |-> StoredStep(pure_in.arg),
           details |-> extract_report_details(
               << [name |-> "f", status |-> "passed",
                   elements |-> << [name |-> "e", status |-> "passed",
                                    steps |-> << StoredStep(pure_in.arg) >>] >>] >>)]
    /\ UNCHANGED pureFrame

InitDetails ==
    /\ InitPureCall
    /\ pure_in \in
          {[fn |-> "tallies", results |-> r] : r \in SeqUpTo(DetailFeatures, MaxTallyFeatures)}
          \cup {[fn |-> "step", arg |-> [result |-> b, step |-> [status |-> st, error_message |-> t]]] :
                    b \in BOOLEAN, st \in ResultStatuses, t \in TextInputs}

NextDetails == ReportTallies \/ ReportStep

SpecDetails == InitDetails /\ [][NextDetails]_vars

\* C26 as claimed: every feature record written by eof() has an "elements" list,
\* and extract_report_details accepts every record written without a KeyError.
C26_WrittenFeaturesHaveElements ==
    \A i \in FeaturePositions :
        /\ "elements" \in DOMAIN stream[i].json
        /\ ~extract_report_details(<< stream[i].json >>).raised

\* the number of elements of a merged list
ElementCount(results) == SumSeq([i \in 1..Len(results) |-> Len(ElementsOf(results[i]))])

\* C27 as claimed: on every merged list that extract_report_details accepts, the
\* (passed, failed, skipped, errors) of generate_report_statistics are the
\* (passed_scenarios, failed_scenarios, skipped_scenarios, error_scenarios) of
\* extract_report_details, and scenario_count is the number of elements.
C27_TalliesAgree ==
    (pure_out # NoObj /\ pure_in.fn = "tallies" /\ ~pure_out.details.raised) =>
        /\ pure_out.statistics.passed = pure_out.details.tallies.passed_scenarios
        /\ pure_out.statistics.failed = pure_out.details.tallies.failed_scenarios
        /\ pure_out.statistics.skipped = pure_out.details.tallies.skipped_scenarios
        /\ pure_out.statistics.errors = pure_out.details.tallies.error_scenarios
        /\ pure_out.details.scenario_count = ElementCount(pure_in.results)

\* the failure_reason extract_report_details reports for the one step
ReasonShown == pure_out.details.features[1].scenarios[1].steps[1].failure_reason

\* C29 as claimed: when the step the collector stored has a result with an
\* error_message, the failure_reason is the lines joined by single spaces for a
\* message stored as a list ("N/A" at most when every line is empty) and the
\* string itself for a message stored as a string; it is "N/A" when the step has
\* no result or the result no message.
C29_FailureReasonIsTheMessage ==
    (pure_out # NoObj /\ pure_in.fn = "step") =>
        IF "result" \in DOMAIN pure_out.step
              /\ "error_message" \in DOMAIN pure_out.step["result"]
        THEN IF pure_out.step["result"]["error_message"].kind = "list"
             THEN \/ ReasonShown = SpaceJoin(pure_out.step["result"]["error_message"].lines)
                  \/ /\ SpaceJoin(pure_out.step["result"]["error_message"].lines) = << >>
                     /\ ReasonShown = NotAvailable
             ELSE ReasonShown = pure_in.arg.step.error_message.chars
        ELSE ReasonShown = NotAvailable

\* ---- the return code of run_behave_tests (SpecRun) -------------------------
\* C28: when run_behave_tests returns, it returns 0 exactly when every
\* run_behave_test call (the workers of the pool, or the one sequential call)
\* returned 0; a return code that is not 0, at any position of the result list,
\* makes the value returned differ from 0.
C28_ZeroIffEveryWorkerZero ==
    run_state.pc = "returned" =>
        /\ run_state.code = 0 <=> \A w \in DOMAIN workers : workers[w].code = 0
        /\ \A w \in DOMAIN workers : workers[w].code # 0 => run_state.code # 0

\* the first worker failed, the last one passed, and the run returned
C28_Witness ==
    /\ run_state.pc = "returned"
    /\ Len(workers) = 2
    /\ workers[1].code # 0
    /\ workers[2].code = 0
    /\ run_state.code # 0

\* ---- StrongDMClient._handle_request (clients/db_client.py) ----------------
\* what one HTTP request ends in: a response with that status code, or a
\* requests.exceptions.RequestException
ServerBehaviours == {"200", "401", "404", "429", "500", "raises"}
Methods == {"GET", "POST", "PUT", "DELETE", "PATCH"}

\* lines 56-72: attempts is advanced in the except clause only
AttemptsAfter(attempts, behaviour) ==
    IF behaviour = "raises" THEN attempts + 1 ELSE attempts

\* lines 36-48: the loop is entered with a method that is not supported
Unsupported ==
    /\ request.pc = "loop"
    /\ request.attempts < request.retries
    /\ request.method = "PATCH"
    /\ request' = [request EXCEPT !.pc = "returned", !.value = Null]
    /\ UNCHANGED << collectorVars, reportVars, runVars, ctxVars, pureVars >>

\* lines 36-72: one pass of the loop that sends a request
SendRequest(behaviour) ==
    /\ request.pc = "loop"
    /\ request.attempts < request.retries
    /\ request.method # "PATCH"
    /\ request.sent < MaxRequests
    /\ request' =
          IF behaviour = "200"
          THEN [request EXCEPT !.sent = @ + 1, !.pc = "returned", !.value = "json"]
          ELSE IF behaviour \in {"401", "404"}
          THEN [request EXCEPT !.sent = @ + 1, !.pc = "returned", !.value = Null]
          ELSE [request EXCEPT !.sent = @ + 1,
                               !.attempts = AttemptsAfter(@, behaviour)]
    /\ UNCHANGED << collectorVars, reportVars, runVars, ctxVars, pureVars >>

\* lines 36 and 74: the loop condition fails
Exhausted ==
    /\ request.pc = "loop"
    /\ request.attempts >= request.retries
    /\ request' = [request EXCEPT !.pc = "returned", !.value = Null]
    /\ UNCHANGED << collectorVars, reportVars, runVars, ctxVars, pureVars >>

InitClient ==
    /\ InitIdleFormatter
    /\ InitIdleRun
    /\ InitIdleContext
    /\ fs = << >>
    /\ fs0 = << >>
    /\ json_report_files = << >>
    /\ merged_results = << >>
    /\ merge_state = "idle"
    /\ merge_logged = 0
    /\ merge_calls = 0
    /\ first_results = << >>
    /\ tally_in = << >>
    /\ tally_out = NoObj
    /\ pure_in = NoObj
    /\ pure_out = NoObj
    /\ request \in {[pc |-> "loop", method |-> m, retries |-> r, attempts |-> 0,
                      sent |-> 0, value |-> Null] : m \in Methods, r \in 0..MaxRetries}

NextClient ==
    \/ Unsupported
    \/ \E behaviour \in ServerBehaviours : SendRequest(behaviour)
    \/ Exhausted

SpecClient == InitClient /\ [][NextClient]_vars

\* C30 as claimed: a call sends at most retries HTTP requests whatever the server
\* does, and a call that has used up its attempts has returned None.
C30_AtMostRetriesRequests ==
    /\ request.sent <= request.retries
    /\ (request.pc = "returned" /\ request.attempts >= request.retries)
          => request.value = Null
====
